---- MODULE Spec2Model ----
(***************************************************************************)
(* Model of the payments agent (hrishihunde/agents-of-truth):              *)
(*   - ens.ts      policy resolution, parsing and the TTL cache            *)
(*   - execute.ts  executeAction and its payment collaborator              *)
(*   - index.ts    the POST /proof and POST /verify handlers               *)
(*   - zk/prove.ts generateProof / generateMockProof                       *)
(*   - zk/circuit.circom  PolicyCompliance(64)                             *)
(*                                                                         *)
(* JavaScript numbers.  An amount is an IEEE-754 double.  A number is      *)
(* written here by its decimal literal with seven fractional digits: the   *)
(* integer n stands for the double nearest to n / 10^7.  Distinct literals *)
(* of that length are distinct doubles in the same order, so <, <= and =   *)
(* on doubles are <, <= and = on the integers; multiplication and          *)
(* Math.floor are computed on the binary significand, bit by bit, because  *)
(* the machine integers of the checker are 32 bits wide.                   *)
(*                                                                         *)
(* Strings are sequences of one-character strings.                         *)
(*                                                                         *)
(* Specifications of the running program, over the same variables:         *)
(*   SpecZK      one generateProof call, then verifyProof and POST /verify *)
(*   SpecCache   concurrent resolveENSPolicy calls, the clock and          *)
(*               clearPolicyCache                                          *)
(*   SpecServer  the routes of the server and executeAction, one request   *)
(*               at a time, over the same resolver and cache               *)
(*   SpecHistory executions completing on an empty, a short or a full      *)
(*               history, and getExecutionHistory                          *)
(*   SpecEvents  subscribeToEvents, its unsubscribe function and emitEvent *)
(* and SpecPure, which applies the pure functions (parsePolicy,            *)
(* computePolicyHash, isAmountWithinLimit, the circuit's constraints) to   *)
(* arguments drawn from bounded sets.                                      *)
(***************************************************************************)
EXTENDS Integers, Sequences, FiniteSets, TLC

VARIABLES
    gen,        \* the last generateProof call: inputs, environment, outcome
    ver,        \* the last verifyProof call on a generated proof
    resp,       \* the last POST /verify request and its response
    now,        \* Date.now(), in milliseconds since the process started
    policyCache,        \* ens.ts policyCache: normalized name -> entry
    nextRef,    \* the identity the next allocated Policy object gets
    fetches,    \* per normalized name, the fetchENSTextRecords calls made
    calls,      \* the calls started so far
    ticks,      \* the clock advances so far
    tasks,      \* the calls in flight or completed, one per slot
    executionHistory,   \* execute.ts executionHistory, newest first
    eventListeners,     \* execute.ts eventListeners, in subscription order
    call        \* the last call of a function applied on its own: arguments and result

zkVars == <<gen, ver, resp>>
agentVars == <<now, policyCache, nextRef, fetches, calls, ticks, tasks, executionHistory,
               eventListeners>>
vars == <<gen, ver, resp, now, policyCache, nextRef, fetches, calls, ticks, tasks,
          executionHistory, eventListeners, call>>

\* An optional value: <<>> is JavaScript's undefined or null (a missing
\* field, no object), <<x>> is the value x.
None == <<>>
Some(x) == <<x>>

\* No call made yet.
NoCall == [none |-> TRUE]

\* ---------------------------------------------------------------------
\* Natural numbers as bit strings, most significant bit first
\* ---------------------------------------------------------------------

\* Literals carry seven fractional digits: n stands for n / DecimalUnit.
DecimalUnit == 10 ^ 7

\* The width of a double's significand.
SignificandBits == 53

\* Division and multiplication work on groups of bits, so that every
\* intermediate value stays below 2^31.
DivChunk == 31 - 24
MulChunk == 31 - 21
\* Fractional quotient bits produced by the division (enough for 53
\* significant bits of the smallest literal, 10^-7 > 2^-24).
FractionBits == 12 * DivChunk
\* Bits of the largest literal (below 2^31), rounded up to whole groups.
LiteralBits == 5 * DivChunk

BitAt(b, i) == IF i \in 1..Len(b) THEN b[i] ELSE 0

\* The value of bits lo..hi of b (a group of at most 31 bits).
RECURSIVE BitsVal(_, _, _)
BitsVal(b, lo, hi) ==
    IF lo > hi THEN 0
    ELSE IF lo = hi THEN BitAt(b, lo)
    ELSE LET mid == (lo + hi) \div 2
         IN  BitsVal(b, lo, mid) * (2 ^ (hi - mid)) + BitsVal(b, mid + 1, hi)

BitsToNat(b) == BitsVal(b, 1, Len(b))

\* v written on exactly w bits.
NatToBitsW(v, w) == [j \in 1..w |-> (v \div (2 ^ (w - j))) % 2]

\* Leading zeros removed.
Canon(b) ==
    IF \A i \in 1..Len(b) : b[i] = 0 THEN <<>>
    ELSE LET f == CHOOSE i \in 1..Len(b) : b[i] = 1 /\ \A j \in 1..(i - 1) : b[j] = 0
         IN  SubSeq(b, f, Len(b))

NatToBits(k) == Canon(NatToBitsW(k, 31))

\* b + 1.
Incr(b) ==
    IF \A i \in 1..Len(b) : b[i] = 1 THEN <<1>> \o [i \in 1..Len(b) |-> 0]
    ELSE LET z == CHOOSE i \in 1..Len(b) : b[i] = 0 /\ \A j \in (i + 1)..Len(b) : b[j] = 1
         IN  [i \in 1..Len(b) |-> IF i < z THEN b[i] ELSE IF i = z THEN 1 ELSE 0]

\* b * c for a small multiplier c, schoolbook from the low group up; b is
\* read as groups of MulChunk bits, the lowest group ending at bit `hi`.
RECURSIVE MulCarry(_, _, _, _, _)
MulCarry(b, c, hi, carry, acc) ==
    IF hi <= 0 THEN NatToBits(carry) \o acc
    ELSE LET t == BitsVal(b, hi - MulChunk + 1, hi) * c + carry
             g == NatToBitsW(t % (2 ^ MulChunk), MulChunk)
         IN  MulCarry(b, c, hi - MulChunk, t \div (2 ^ MulChunk), g \o acc)

MulSmall(b, c) == Canon(MulCarry(b, c, Len(b), 0, <<>>))

AnyOne(b) == \E i \in 1..Len(b) : b[i] = 1

\* Round-to-nearest, ties-to-even, of the value (m + s) * 2^(-e), where
\* 0 <= s < 1 and `sticky` says s > 0, to a significand of at most 53 bits
\* (IEEE-754 binary64 rounding).
RoundToDouble(m, e, sticky) ==
    IF Len(m) <= SignificandBits THEN [m |-> m, e |-> e]
    ELSE LET d    == Len(m) - SignificandBits
             kept == SubSeq(m, 1, SignificandBits)
             low  == SubSeq(m, SignificandBits + 1, Len(m))
             up   == low[1] = 1
                     /\ (AnyOne(Tail(low)) \/ sticky \/ kept[SignificandBits] = 1)
         IN  [m |-> IF up THEN Incr(kept) ELSE kept, e |-> e - d]

\* Binary long division of kb / den, one group of DivChunk bits a step:
\* the quotient bits and the remainder left after the last group.
RECURSIVE DivBits(_, _, _, _, _)
DivBits(kb, lo, den, rem, q) ==
    IF lo > Len(kb) THEN [q |-> q, rem |-> rem]
    ELSE LET r == rem * (2 ^ DivChunk) + BitsVal(kb, lo, lo + DivChunk - 1)
         IN  DivBits(kb, lo + DivChunk, den, r % den,
                     q \o NatToBitsW(r \div den, DivChunk))

\* The double nearest to k / DecimalUnit (k >= 0): what the JavaScript
\* number written as that decimal literal is.
ToDouble(k) ==
    IF k = 0 THEN [m |-> <<>>, e |-> 0]
    ELSE LET num == [i \in 1..(LiteralBits - 31) |-> 0] \o NatToBitsW(k, 31)
                    \o [i \in 1..FractionBits |-> 0]
             d   == DivBits(num, 1, DecimalUnit, 0, <<>>)
         IN  RoundToDouble(Canon(d.q), FractionBits, d.rem # 0)

\* x * c in double arithmetic, c a small integer (exactly representable).
DoubleTimes(x, c) == RoundToDouble(MulSmall(x.m, c), x.e, FALSE)

\* The integer and the fractional part of a non-negative double.
IntPart(x) ==
    IF x.e <= 0 THEN x.m
    ELSE IF Len(x.m) <= x.e THEN <<>> ELSE SubSeq(x.m, 1, Len(x.m) - x.e)

HasFraction(x) ==
    x.e > 0 /\ AnyOne(SubSeq(x.m, IF Len(x.m) > x.e THEN Len(x.m) - x.e + 1 ELSE 1, Len(x.m)))

\* ---------------------------------------------------------------------
\* zk/prove.ts: circuit inputs
\* ---------------------------------------------------------------------

\* USDC has 6 decimals: amounts enter the circuit multiplied by 1e6.
MicroUnits == 1000000

\* The circuit is instantiated with 64-bit precision.
CircuitBits == 64

Abs(n) == IF n < 0 THEN -n ELSE n

\* BigInt(Math.floor(x * 1e6)) for the number written n / 10^7.
ScaledMicros(n) ==
    LET p == DoubleTimes(ToDouble(Abs(n)), MicroUnits)
        i == BitsToNat(IntPart(p))
    IN  IF n >= 0 THEN i ELSE -(i + IF HasFraction(p) THEN 1 ELSE 0)

\* Strings are sequences of one-character strings.
Digits == {"0", "1", "2", "3", "4", "5", "6", "7", "8", "9"}

\* BigInt(s) succeeds on a string of decimal digits (the empty string is
\* 0n) and throws a SyntaxError on a string holding a letter.
IsBigIntString(s) == \A i \in 1..Len(s) : s[i] \in Digits

\* Poseidon(2) over (amount, policyHash): a collision-free hash, kept
\* symbolic.  policyHash enters as the field element BigInt(policyHash).
Poseidon(a, h) == <<"poseidon", a, h>>

\* ---------------------------------------------------------------------
\* zk/circuit.circom: PolicyCompliance(n)
\* ---------------------------------------------------------------------

\* Num2Bits(n): the signal must be an n-bit unsigned integer.  A negative
\* BigInt is reduced modulo the field prime (about 2^254) and does not fit.
Num2Bits(v, n) == v >= 0 /\ Len(NatToBits(v)) <= n

\* LessEqThan(n).out for in-range inputs.
LessEqThan(a, b) == IF a <= b THEN 1 ELSE 0

\* The witness of the circuit for (amount, maxSpend, policyHash): whether
\* all constraints are satisfied, and the two outputs.
PolicyCompliance(amount, maxSpend, policyHash) ==
    LET isValid == LessEqThan(amount, maxSpend)
    IN  [sat        |-> /\ isValid = 1
                        /\ Num2Bits(amount, CircuitBits)
                        /\ Num2Bits(maxSpend, CircuitBits),
         commitment |-> Poseidon(amount, policyHash),
         isValid    |-> isValid]

\* The template over a prime field of p elements, with the constraints of
\* its circomlib components written out.  Signals are field elements
\* 0..p-1.  The instantiated circuit has n = 64 over the BN254 scalar
\* field (p about 2^254); LessThan(n) requires 2^(n+1) < p (n <= 252).

\* The n-bit vectors, indexed from the least significant bit 0.
BitVectors(n) == [0..(n - 1) -> {0, 1}]

\* out[0] * 2^0 + ... + out[k-1] * 2^(k-1)
RECURSIVE Weighted(_, _)
Weighted(out, k) == IF k = 0 THEN 0 ELSE Weighted(out, k - 1) + out[k - 1] * (2 ^ (k - 1))

\* Num2Bits(n): the assignments of out[] that satisfy
\* out[i] * (out[i] - 1) === 0 and the sum of out[i] * 2^i === in.
Num2BitsOver(p, n, in) == {out \in BitVectors(n) : Weighted(out, n) % p = in}

\* a - b in the field of p elements.
FieldSub(p, a, b) == ((a % p) + p - (b % p)) % p

\* The template without its two range checks.
PolicyComplianceUnranged(p, n, amount, maxSpend, policyHash) ==
    {w \in {[ltBits       |-> lt,
             amountBits   |-> <<>>,
             maxSpendBits |-> <<>>,
             isValid      |-> 1 - lt[n],
             commitment   |-> Poseidon(amount, policyHash)] :
                lt \in Num2BitsOver(p, n + 1, FieldSub(p, amount + 2 ^ n, maxSpend + 1))} :
        w.isValid = 1}

\* PolicyCompliance(n): the satisfying assignments of the signals for the
\* inputs (amount, maxSpend, policyHash).  LessEqThan(n) is LessThan(n) on
\* (amount, maxSpend + 1), whose output is 1 - bit n of
\* amount + 2^n - (maxSpend + 1), decomposed by a Num2Bits(n + 1).
PolicyComplianceOver(p, n, amount, maxSpend, policyHash) ==
    {w \in {[ltBits       |-> lt,
             amountBits   |-> a,
             maxSpendBits |-> m,
             isValid      |-> 1 - lt[n],
             commitment   |-> Poseidon(amount, policyHash)] :
                lt \in Num2BitsOver(p, n + 1, FieldSub(p, amount + 2 ^ n, maxSpend + 1)),
                a \in Num2BitsOver(p, n, amount),
                m \in Num2BitsOver(p, n, maxSpend)} :
        w.isValid = 1}

\* ---------------------------------------------------------------------
\* snarkjs.groth16 (library): a proof is bound to the public signals it
\* was made for; verification accepts exactly a proof made for the
\* signals it is checked against.
\* ---------------------------------------------------------------------

Groth16Proof(publicSignals) ==
    [pi |-> <<"groth16-proof-of", publicSignals>>, protocol |-> "groth16", curve |-> "bn128"]

\* Random hex coordinates: bound to no statement.
RandomHexProof == [pi |-> <<"random-hex">>, protocol |-> "groth16", curve |-> "bn128"]

Groth16Verify(publicSignals, proof) == proof.pi = <<"groth16-proof-of", publicSignals>>

\* ---------------------------------------------------------------------
\* zk/prove.ts: generateMockProof, generateProof
\* ---------------------------------------------------------------------

Threw(msg) == [ok |-> FALSE, error |-> msg]

\* generateMockProof taking the branch for a missing hash primitive: the
\* commitment is the placeholder string.
GenerateMockProofPlaceholder(inputs) ==
    IF inputs.amount > inputs.maxSpend THEN Threw("Amount exceeds max spend")
    ELSE LET commitment == <<"mock_commitment", inputs.amount, inputs.policyHash>>
         IN  [ok   |-> TRUE,
              path |-> "mock",
              zk   |-> [proof         |-> RandomHexProof,
                        publicSignals |-> <<commitment, 1, ScaledMicros(inputs.maxSpend),
                                            inputs.policyHash>>,
                        commitment    |-> commitment,
                        verified      |-> TRUE]]

\* generateMockProof with the validity flag and the limit exchanged in the
\* public signals.
GenerateMockProofMisordered(inputs) ==
    IF inputs.amount > inputs.maxSpend THEN Threw("Amount exceeds max spend")
    ELSE IF ~IsBigIntString(inputs.policyHash) THEN Threw("SyntaxError: Cannot convert to a BigInt")
    ELSE LET commitment == Poseidon(ScaledMicros(inputs.amount), inputs.policyHash)
         IN  [ok   |-> TRUE,
              path |-> "mock",
              zk   |-> [proof         |-> RandomHexProof,
                        publicSignals |-> <<commitment, ScaledMicros(inputs.maxSpend), 1,
                                            inputs.policyHash>>,
                        commitment    |-> commitment,
                        verified      |-> TRUE]]

\* generateMockProof refusing the limit itself.
GenerateMockProofRefusingLimit(inputs) ==
    IF inputs.amount >= inputs.maxSpend THEN Threw("Amount exceeds max spend")
    ELSE IF ~IsBigIntString(inputs.policyHash) THEN Threw("SyntaxError: Cannot convert to a BigInt")
    ELSE LET commitment == Poseidon(ScaledMicros(inputs.amount), inputs.policyHash)
         IN  [ok   |-> TRUE,
              path |-> "mock",
              zk   |-> [proof         |-> RandomHexProof,
                        publicSignals |-> <<commitment, 1, ScaledMicros(inputs.maxSpend),
                                            inputs.policyHash>>,
                        commitment    |-> commitment,
                        verified      |-> TRUE]]

\* generateMockProof(inputs)
GenerateMockProof(inputs) ==
    IF inputs.amount > inputs.maxSpend THEN Threw("Amount exceeds max spend")
    ELSE IF ~IsBigIntString(inputs.policyHash) THEN Threw("SyntaxError: Cannot convert to a BigInt")
    ELSE LET commitment == Poseidon(ScaledMicros(inputs.amount), inputs.policyHash)
         IN  [ok   |-> TRUE,
              path |-> "mock",
              zk   |-> [proof         |-> RandomHexProof,
                        publicSignals |-> <<commitment, 1, ScaledMicros(inputs.maxSpend),
                                            inputs.policyHash>>,
                        commitment    |-> commitment,
                        verified      |-> TRUE]]

\* The try block of generateProof: the circuit inputs, the prover, the
\* immediate verification.  env.proverFault is an exception of the prover
\* or of the key files that is not caused by the inputs.
RealProofPublishingUnscaled(inputs, env) ==
    LET w == PolicyCompliance(ScaledMicros(inputs.amount), ScaledMicros(inputs.maxSpend),
                              inputs.policyHash)
        proved == <<w.commitment, w.isValid, ScaledMicros(inputs.maxSpend), inputs.policyHash>>
        publicSignals == <<w.commitment, w.isValid, inputs.maxSpend, inputs.policyHash>>
    IN  IF ~IsBigIntString(inputs.policyHash) \/ env.proverFault \/ ~w.sat
        THEN Threw("prover")
        ELSE [ok   |-> TRUE,
              path |-> "real",
              zk   |-> [proof         |-> Groth16Proof(proved),
                        publicSignals |-> publicSignals,
                        commitment    |-> publicSignals[1],
                        verified      |-> IF env.vkey
                                          THEN Groth16Verify(publicSignals, Groth16Proof(proved))
                                          ELSE FALSE]]

RealProof(inputs, env) ==
    IF ~IsBigIntString(inputs.policyHash) THEN Threw("SyntaxError: Cannot convert to a BigInt")
    ELSE LET w == PolicyCompliance(ScaledMicros(inputs.amount), ScaledMicros(inputs.maxSpend),
                                   inputs.policyHash)
             publicSignals == <<w.commitment, w.isValid, ScaledMicros(inputs.maxSpend),
                                inputs.policyHash>>
             proof == Groth16Proof(publicSignals)
         IN  IF env.proverFault THEN Threw("prover failure")
             ELSE IF ~w.sat THEN Threw("Assert Failed: witness generation")
             ELSE [ok   |-> TRUE,
                   path |-> "real",
                   zk   |-> [proof         |-> proof,
                             publicSignals |-> publicSignals,
                             commitment    |-> publicSignals[1],
                             verified      |-> IF env.vkey
                                               THEN Groth16Verify(publicSignals, proof)
                                               ELSE FALSE]]

\* generateProof without the catch block: an exception of the real path
\* propagates.
GenerateProofPropagating(inputs, env) ==
    IF ~env.circuitFiles THEN GenerateMockProof(inputs) ELSE RealProof(inputs, env)

\* generateProof(inputs)
GenerateProof(inputs, env) ==
    IF ~env.circuitFiles THEN GenerateMockProof(inputs)
    ELSE LET r == RealProof(inputs, env)
         IN  IF r.ok THEN r ELSE GenerateMockProof(inputs)

\* computeCommitment(amount, policyHash): the hash computed outside the
\* circuit, or the exception of BigInt(policyHash).
ComputeCommitment(amount, policyHash) ==
    IF ~IsBigIntString(policyHash) THEN Threw("SyntaxError: Cannot convert to a BigInt")
    ELSE [ok |-> TRUE, commitment |-> Poseidon(ScaledMicros(amount), policyHash)]

\* ---------------------------------------------------------------------
\* Strings (sequences of characters) as ens.ts uses them
\* ---------------------------------------------------------------------

Lower == <<"a", "b", "c", "d", "e", "f", "g", "h", "i", "j", "k", "l", "m",
           "n", "o", "p", "q", "r", "s", "t", "u", "v", "w", "x", "y", "z">>
Upper == <<"A", "B", "C", "D", "E", "F", "G", "H", "I", "J", "K", "L", "M",
           "N", "O", "P", "Q", "R", "S", "T", "U", "V", "W", "X", "Y", "Z">>
DigitSeq == <<"0", "1", "2", "3", "4", "5", "6", "7", "8", "9">>

\* The sequence f as a tuple, each element computed once.
Tuple(f) == f \o <<>>

IndexIn(seq, c) == CHOOSE i \in 1..Len(seq) : seq[i] = c
IsIn(seq, c) == \E i \in 1..Len(seq) : seq[i] = c

Punctuation == <<" ", "\"", ",", "-", ".", ":", "[", "]", "{", "}">>
PunctuationCodes == <<32, 34, 44, 45, 46, 58, 91, 93, 123, 125>>

\* The UTF-16 codes of the characters that occur.
CharCodes ==
    [c \in {Lower[i] : i \in 1..26} \cup {Upper[i] : i \in 1..26}
           \cup {DigitSeq[i] : i \in 1..10} \cup {Punctuation[i] : i \in 1..10} |->
        IF IsIn(Lower, c) THEN 96 + IndexIn(Lower, c)
        ELSE IF IsIn(Upper, c) THEN 64 + IndexIn(Upper, c)
        ELSE IF IsIn(DigitSeq, c) THEN 47 + IndexIn(DigitSeq, c)
        ELSE PunctuationCodes[IndexIn(Punctuation, c)]]

\* charCodeAt
CharCode(c) == CharCodes[c]

\* String.prototype.toLowerCase
ToLowerCase(s) ==
    Tuple([i \in 1..Len(s) |-> IF IsIn(Upper, s[i]) THEN Lower[IndexIn(Upper, s[i])] ELSE s[i]])

\* String.prototype.trim
Trim(s) ==
    IF \A i \in 1..Len(s) : s[i] = " " THEN <<>>
    ELSE LET a == CHOOSE i \in 1..Len(s) : s[i] # " " /\ \A j \in 1..(i - 1) : s[j] = " "
             b == CHOOSE i \in 1..Len(s) : s[i] # " " /\ \A j \in (i + 1)..Len(s) : s[j] = " "
         IN  SubSeq(s, a, b)

\* String.prototype.split(sep) for a one-character separator: the pieces
\* between consecutive separators (an empty string gives one empty piece).
Split(s, sep) ==
    LET cuts == {i \in 1..Len(s) : s[i] = sep}
        n    == Cardinality(cuts) + 1
        \* position of the k-th separator; 0 before the first piece and
        \* Len(s) + 1 after the last
        Cut(k) == IF k = 0 THEN 0
                  ELSE IF k = n THEN Len(s) + 1
                  ELSE CHOOSE i \in cuts : Cardinality({j \in cuts : j < i}) = k - 1
    IN  Tuple([k \in 1..n |-> SubSeq(s, Cut(k - 1) + 1, Cut(k) - 1)])

\* Array.prototype.filter with the test (action) => action.length > 0
FilterNonEmpty(seq) ==
    LET kept == {i \in 1..Len(seq) : Len(seq[i]) > 0}
        Nth(k) == CHOOSE i \in kept : Cardinality({j \in kept : j < i}) = k - 1
    IN  Tuple([k \in 1..Cardinality(kept) |-> seq[Nth(k)]])

\* The default comparison of Array.prototype.sort: by UTF-16 code units.
StrLess(a, b) ==
    \E i \in 1..(Len(a) + 1) :
        /\ \A j \in 1..(i - 1) : j <= Len(b) /\ a[j] = b[j]
        /\ i <= Len(b)
        /\ (i > Len(a) \/ CharCode(a[i]) < CharCode(b[i]))

\* Array.prototype.sort() of an array of strings.
SortStrings(seq) ==
    LET Rank(i) == Cardinality({j \in 1..Len(seq) :
                        StrLess(seq[j], seq[i]) \/ (seq[j] = seq[i] /\ j < i)}) + 1
    IN  Tuple([k \in 1..Len(seq) |-> seq[CHOOSE i \in 1..Len(seq) : Rank(i) = k]])

\* Array.prototype.includes
Includes(seq, x) == \E i \in 1..Len(seq) : seq[i] = x

\* The decimal digits of a natural number below 2^31.
NatToString(k) ==
    LET n   == IF k < 10 THEN 1 ELSE CHOOSE l \in 2..10 : 10 ^ (l - 1) <= k /\ (l = 10 \/ k < 10 ^ l)
    IN  Tuple([i \in 1..n |-> DigitSeq[((k \div (10 ^ (n - i))) % 10) + 1]])

\* Number-to-string as JSON.stringify does it, for the number n / 10^7
\* with n = 0 or n >= 10 (no exponent notation): the integer digits, then
\* the fraction without trailing zeros.
NumberToString(n) ==
    LET int  == NatToString(n \div DecimalUnit)
        frac == n % DecimalUnit
        f7   == Tuple([i \in 1..7 |-> DigitSeq[((frac \div (10 ^ (7 - i))) % 10) + 1]])
        last == CHOOSE i \in 1..7 : f7[i] # "0" /\ \A j \in (i + 1)..7 : f7[j] = "0"
    IN  IF frac = 0 THEN int ELSE int \o <<".">> \o SubSeq(f7, 1, last)

\* parseFloat: leading blanks, an optional sign, digits, an optional
\* fraction; the parse stops at the first other character.  None is NaN,
\* Some(n) the number n / 10^7 (fractions of up to seven digits).
ParseFloat(s) ==
    LET t     == IF \A i \in 1..Len(s) : s[i] = " " THEN <<>>
                 ELSE SubSeq(s, CHOOSE i \in 1..Len(s) :
                                    s[i] # " " /\ \A j \in 1..(i - 1) : s[j] = " ", Len(s))
        neg   == t # <<>> /\ t[1] = "-"
        u     == IF neg THEN Tail(t) ELSE t
        IsDig(i) == i <= Len(u) /\ IsIn(DigitSeq, u[i])
        \* the longest run of digits starting at position `from`
        RunEnd(from) == CHOOSE e \in (from - 1)..Len(u) :
                            /\ \A j \in from..e : IsDig(j)
                            /\ ~IsDig(e + 1)
        ie    == RunEnd(1)
        dot   == ie + 1 <= Len(u) /\ u[ie + 1] = "."
        fe    == IF dot THEN RunEnd(ie + 2) ELSE ie
        nfrac == IF dot THEN fe - (ie + 1) ELSE 0
        DigitVal(i) == IndexIn(DigitSeq, u[i]) - 1
        RECURSIVE Dec(_, _)
        Dec(lo, hi) == IF lo > hi THEN 0 ELSE 10 * Dec(lo, hi - 1) + DigitVal(hi)
        mag   == Dec(1, ie) * DecimalUnit
                 + (IF nfrac = 0 THEN 0 ELSE Dec(ie + 2, fe) * (10 ^ (7 - nfrac)))
    IN  IF ie = 0 /\ nfrac = 0 THEN None
        ELSE Some(IF neg THEN -mag ELSE mag)

\* ---------------------------------------------------------------------
\* ens.ts: the policy resolver
\* ---------------------------------------------------------------------

\* Cache duration in milliseconds (5 minutes).
CACHE_DURATION_MS == 5 * 60 * 1000

\* viem's normalize on the names used here: ASCII letters are folded to
\* lower case; a character outside letters, digits, "." and "-" makes it
\* throw (None).
Normalize(ensName) ==
    IF \A i \in 1..Len(ensName) :
           IsIn(Lower, ensName[i]) \/ IsIn(Upper, ensName[i]) \/ IsIn(DigitSeq, ensName[i])
           \/ ensName[i] \in {".", "-"}
    THEN Some(ToLowerCase(ensName))
    ELSE None

\* The three text records of a name, each absent (None) or Some(string).
ENS_POLICY_KEYS == {"maxSpendUSDC", "allowedActions", "policyVersion"}

\* fetchENSTextRecords losing every record as soon as one lookup is
\* rejected.
FetchENSTextRecordsAllOrNothing(onChain, failed) ==
    [key \in ENS_POLICY_KEYS |->
        IF failed # {} \/ onChain[key] = None \/ onChain[key] = Some(<<>>)
        THEN None ELSE onChain[key]]

\* fetchENSTextRecords: the records object built from the settled lookups.
\* A key is left out when its lookup was rejected (key \in failed) or gave
\* a falsy value (no record, or the empty string).
FetchENSTextRecords(onChain, failed) ==
    [key \in ENS_POLICY_KEYS |->
        IF key \in failed \/ onChain[key] = None \/ onChain[key] = Some(<<>>)
        THEN None ELSE onChain[key]]

\* JSON.stringify of a string without characters that need escaping.
Quoted(s) == <<"\"">> \o s \o <<"\"">>

\* JSON.stringify of an array of strings.
RECURSIVE JoinQuoted(_, _)
JoinQuoted(seq, i) ==
    IF i > Len(seq) THEN <<>>
    ELSE (IF i > 1 THEN <<",">> ELSE <<>>) \o Quoted(seq[i]) \o JoinQuoted(seq, i + 1)

\* The policyString of computePolicyHash.
PolicyString(maxSpendUSDC, sortedActions, policyVersion) ==
    <<"{">> \o Quoted(<<"m", "a", "x", "S", "p", "e", "n", "d", "U", "S", "D", "C">>)
    \o <<":">> \o NumberToString(maxSpendUSDC) \o <<",">>
    \o Quoted(<<"a", "l", "l", "o", "w", "e", "d", "A", "c", "t", "i", "o", "n", "s">>)
    \o <<":", "[">> \o JoinQuoted(sortedActions, 1) \o <<"]", ",">>
    \o Quoted(<<"p", "o", "l", "i", "c", "y", "V", "e", "r", "s", "i", "o", "n">>)
    \o <<":">> \o Quoted(policyVersion) \o <<"}">>

\* The loop of computePolicyHash on the 32-bit pattern hi * 2^16 + lo:
\* hash = ((hash << 5) - hash) + char; hash = hash & hash.  (The tests on
\* hi and lo in the guard are always false; they make each step's value
\* computed before the next step starts.)
RECURSIVE HashLoop(_, _, _, _)
HashLoop(s, i, hi, lo) ==
    IF i > Len(s) \/ hi < 0 \/ lo < 0 THEN <<hi, lo>>
    ELSE LET t == 31 * lo + CharCode(s[i])
             u == 31 * hi + (t \div 65536)
         IN  HashLoop(s, i + 1, u % 65536, t % 65536)

\* BigInt(Math.abs(hash)).toString() for the signed 32-bit value of the
\* pattern <<hi, lo>>.
AbsInt32String(h) ==
    IF h[1] < 32768 THEN NatToString(h[1] * 65536 + h[2])
    ELSE IF h[1] = 32768 /\ h[2] = 0 THEN <<"2", "1", "4", "7", "4", "8", "3", "6", "4", "8">>
    ELSE NatToString((65535 - h[1]) * 65536 + (65536 - h[2]))

\* computePolicyHash hashing the actions in the order given.
ComputePolicyHashUnsorted(maxSpendUSDC, allowedActions, policyVersion) ==
    [hash   |-> AbsInt32String(HashLoop(PolicyString(maxSpendUSDC, allowedActions,
                                                     policyVersion), 1, 0, 0)),
     sorted |-> allowedActions]

\* computePolicyHash.  Its allowedActions.sort() sorts the caller's array
\* in place; the sorted array is the second component.
ComputePolicyHash(maxSpendUSDC, allowedActions, policyVersion) ==
    LET sorted == SortStrings(allowedActions)
    IN  [hash   |-> AbsInt32String(HashLoop(PolicyString(maxSpendUSDC, sorted, policyVersion),
                                            1, 0, 0)),
         sorted |-> sorted]

\* A thrown PolicyError, and a returned policy.
PolicyError(message, code) == [ok |-> FALSE, code |-> code, message |-> message, policy |-> None]
Parsed(policy) == [ok |-> TRUE, code |-> "", message |-> "", policy |-> Some(policy)]

\* !raw for a text record: undefined, or the empty string.
Missing(raw) == raw = None \/ raw = Some(<<>>)

\* The first two checks of parsePolicy: the PolicyError thrown for the
\* maxSpendUSDC record, or None.
MaxSpendError(records) ==
    LET maxSpendRaw == records["maxSpendUSDC"]
        maxSpendUSDC == ParseFloat(maxSpendRaw[1])
    IN  IF Missing(maxSpendRaw)
        THEN Some(PolicyError("Missing required text record: agent.maxSpendUSDC",
                              "MISSING_MAX_SPEND"))
        ELSE IF maxSpendUSDC = None \/ maxSpendUSDC[1] < 0
        THEN Some(PolicyError("Invalid maxSpendUSDC value", "INVALID_MAX_SPEND"))
        ELSE None

\* The allowed actions taken as split, neither trimmed nor lower-cased nor
\* filtered.
ParseAllowedActionsRaw(allowedActionsRaw) == Split(allowedActionsRaw, ",")

\* allowedActionsRaw.split(',').map(trim, toLowerCase).filter(non-empty)
ParseAllowedActions(allowedActionsRaw) ==
    LET pieces == Split(allowedActionsRaw, ",")
    IN  FilterNonEmpty(Tuple([i \in 1..Len(pieces) |-> ToLowerCase(Trim(pieces[i]))]))

\* The next two checks of parsePolicy: the PolicyError thrown for the
\* allowedActions record, or None.
AllowedActionsError(records) ==
    LET allowedActionsRaw == records["allowedActions"]
    IN  IF Missing(allowedActionsRaw)
        THEN Some(PolicyError("Missing required text record: agent.allowedActions",
                              "MISSING_ALLOWED_ACTIONS"))
        ELSE IF Len(ParseAllowedActions(allowedActionsRaw[1])) = 0
        THEN Some(PolicyError("No valid actions in allowedActions", "EMPTY_ALLOWED_ACTIONS"))
        ELSE None

\* The policy parsePolicy returns once its checks have passed.
PolicyOf(ensName, records, t, ref) ==
    LET maxSpendUSDC == ParseFloat(records["maxSpendUSDC"][1])[1]
        allowedActions == ParseAllowedActions(records["allowedActions"][1])
        policyVersion == IF Missing(records["policyVersion"]) THEN <<"1", ".", "0">>
                         ELSE records["policyVersion"][1]
        h == ComputePolicyHash(maxSpendUSDC, allowedActions, policyVersion)
    IN  [ref            |-> ref,
         ensName        |-> ensName,
         maxSpendUSDC   |-> maxSpendUSDC,
         allowedActions |-> h.sorted,
         policyVersion  |-> policyVersion,
         fetchedAt      |-> t,
         policyHash     |-> h.hash]

\* parsePolicy checking the allowedActions record before maxSpendUSDC.
ParsePolicyActionsFirst(ensName, records, t, ref) ==
    IF AllowedActionsError(records) # None THEN AllowedActionsError(records)[1]
    ELSE IF MaxSpendError(records) # None THEN MaxSpendError(records)[1]
    ELSE Parsed(PolicyOf(ensName, records, t, ref))

\* parsePolicy(ensName, records) at time t; ref is the identity of the
\* object the call allocates.
ParsePolicy(ensName, records, t, ref) ==
    IF MaxSpendError(records) # None THEN MaxSpendError(records)[1]
    ELSE IF AllowedActionsError(records) # None THEN AllowedActionsError(records)[1]
    ELSE Parsed(PolicyOf(ensName, records, t, ref))

\* isActionAllowed answering true for every action type.
IsActionAllowedAlways(policy, actionType) == TRUE

\* isActionAllowed(policy, actionType)
IsActionAllowed(policy, actionType) == Includes(policy.allowedActions, ToLowerCase(actionType))

\* isAmountWithinLimit refusing the limit itself.
IsAmountWithinLimitStrict(policy, amount) == amount >= 0 /\ amount < policy.maxSpendUSDC

\* isAmountWithinLimit without the comparison to the limit.
IsAmountWithinLimitNoCeiling(policy, amount) == amount >= 0

\* isAmountWithinLimit(policy, amount)
IsAmountWithinLimit(policy, amount) == amount >= 0 /\ amount <= policy.maxSpendUSDC

\* A Map without entries.
EmptyMap == [k \in {} |-> k]

\* The cache test with the expiry comparison left out.
CacheHitIgnoringExpiry(cache, name, t) == name \in DOMAIN cache

\* The cache test that never finds an entry.
CacheHitNever(cache, name, t) == FALSE

\* resolveENSPolicy's cache test: cached && cached.expiresAt > Date.now()
CacheHit(cache, name, t) == name \in DOMAIN cache /\ cache[name].expiresAt > t

\* A store that keeps an existing entry.
CacheSetIfAbsent(cache, name, entry) ==
    [k \in DOMAIN cache \cup {name} |-> IF k \in DOMAIN cache THEN cache[k] ELSE entry]

\* A store that drops the entries of the other names.
CacheSetAlone(cache, name, entry) == [k \in {name} |-> entry]

\* policyCache.set(name, entry)
CacheSet(cache, name, entry) ==
    [k \in DOMAIN cache \cup {name} |-> IF k = name THEN entry ELSE cache[k]]

\* createMockPolicy(ensName)
CreateMockPolicy(ensName, t, ref) ==
    [ref            |-> ref,
     ensName        |-> ensName,
     maxSpendUSDC   |-> 100 * DecimalUnit,
     allowedActions |-> << <<"p", "a", "y", "m", "e", "n", "t">>,
                           <<"t", "r", "a", "n", "s", "f", "e", "r">> >>,
     policyVersion  |-> <<"1", ".", "0", "-", "m", "o", "c", "k">>,
     fetchedAt      |-> t,
     policyHash     |-> <<"1", "2", "3", "4", "5", "6", "7", "8">>]

\* ---------------------------------------------------------------------
\* zk/verify.ts: verifyProof.  The file is not part of the sources; the
\* routine is modelled from its contract: it loads the verification key,
\* runs the verification algorithm on (publicSignals, proof) and returns
\* valid = TRUE iff the algorithm accepts; it throws or fails only on a
\* proof object with a missing field or on an unloadable key.
\* ---------------------------------------------------------------------

\* A request body: the posted object, if any, with each field optional.
Falsy(v) == v = None

AsBody(zk) == Some([proof |-> Some(zk.proof), publicSignals |-> Some(zk.publicSignals)])

\* !proof || !proof.proof || !proof.publicSignals
Malformed(body) ==
    Falsy(body) \/ Falsy(body[1].proof) \/ Falsy(body[1].publicSignals)

\* The outcomes verifyProof may have: a VerifyResult or an exception.
VerifyProof(body, vkeyLoadable) ==
    IF Malformed(body) \/ ~vkeyLoadable
    THEN {[threw |-> TRUE, valid |-> FALSE, error |-> Some("verification failed")],
          [threw |-> FALSE, valid |-> FALSE, error |-> Some("verification failed")]}
    ELSE {[threw |-> FALSE,
           valid |-> Groth16Verify(body[1].publicSignals[1], body[1].proof[1]),
           error |-> None]}

\* ---------------------------------------------------------------------
\* index.ts: POST /verify, given the outcome of its verifyProof call
\* ---------------------------------------------------------------------

PostVerifyFailingRejected(body, outcome) ==
    IF Malformed(body)
    THEN [status |-> 400, success |-> FALSE, code |-> "VALIDATION_ERROR", data |-> None]
    ELSE IF outcome.threw \/ ~outcome.valid
    THEN [status |-> 500, success |-> FALSE, code |-> "VERIFY_ERROR", data |-> None]
    ELSE [status |-> 200, success |-> TRUE, code |-> "",
          data |-> Some([valid |-> outcome.valid, error |-> outcome.error])]

PostVerify(body, outcome) ==
    IF Malformed(body)
    THEN [status |-> 400, success |-> FALSE, code |-> "VALIDATION_ERROR", data |-> None]
    ELSE IF outcome.threw
    THEN [status |-> 500, success |-> FALSE, code |-> "VERIFY_ERROR", data |-> None]
    ELSE [status |-> 200, success |-> TRUE, code |-> "",
          data |-> Some([valid |-> outcome.valid, error |-> outcome.error])]

\* ---------------------------------------------------------------------
\* The proof subsystem on its own: calls of generateProof, verifyProof
\* and POST /verify with inputs drawn from small sets.
\* ---------------------------------------------------------------------

\* Amounts and limits, as literals n / 10^7: 0, 0.5, 1, 1.0000005,
\* 1.000001, 2, 150, -1 and 0, 1, 2, 100.
ZkAmounts == {0, 5000000, 10000000, 10000005, 10000010, 20000000, 1500000000, -10000000}
ZkMaxSpends == {0, 10000000, 20000000, 1000000000}
ZkHashes == {<<"1", "2", "3", "4", "5", "6", "7", "8">>, <<"a", "b", "c">>}

ZkInputs == [amount : ZkAmounts, maxSpend : ZkMaxSpends, policyHash : ZkHashes]
ZkEnvs == [circuitFiles : BOOLEAN, vkey : BOOLEAN, proverFault : BOOLEAN]

\* What a client can post to /verify once a proof was generated: the proof
\* itself, the proof with its maxSpend signal replaced, objects with a
\* field missing, no object at all, an empty signal list.
Bodies(zk) ==
    {AsBody(zk),
     Some([proof |-> Some(zk.proof),
           publicSignals |-> Some([zk.publicSignals EXCEPT ![3] = @ + 1])]),
     Some([proof |-> Some(zk.proof), publicSignals |-> Some(<<>>)]),
     Some([proof |-> None, publicSignals |-> Some(zk.publicSignals)]),
     Some([proof |-> Some(zk.proof), publicSignals |-> None]),
     None}

\* One call of generateProof per behaviour, its inputs and environment
\* drawn at the start.
Pending == [pending |-> TRUE]

ZkInit ==
    /\ gen \in [inputs : ZkInputs, env : ZkEnvs, out : {Pending}]
    /\ ver = NoCall
    /\ resp = NoCall
    /\ now = 0
    /\ policyCache = <<>>
    /\ nextRef = 1
    /\ fetches = <<>>
    /\ calls = 0
    /\ ticks = 0
    /\ tasks = <<>>
    /\ executionHistory = <<>>
    /\ eventListeners = <<>>
    /\ call = NoCall

Generated == gen.out # Pending

ZkGenerate ==
    /\ ~Generated
    /\ gen' = [gen EXCEPT !.out = GenerateProof(gen.inputs, gen.env)]
    /\ UNCHANGED <<ver, resp>>
    /\ UNCHANGED <<agentVars, call>>

ZkVerify ==
    /\ Generated
    /\ gen.out.ok
    /\ \E loadable \in BOOLEAN :
        \E outcome \in VerifyProof(AsBody(gen.out.zk), loadable) :
            ver' = [proof |-> gen.out.zk, vkeyLoadable |-> loadable, out |-> outcome]
    /\ UNCHANGED <<gen, resp>>
    /\ UNCHANGED <<agentVars, call>>

ZkPostVerify ==
    /\ Generated
    /\ gen.out.ok
    /\ \E body \in Bodies(gen.out.zk), loadable \in BOOLEAN :
        \E outcome \in VerifyProof(body, loadable) :
            resp' = [body |-> body, vkeyLoadable |-> loadable,
                     res |-> PostVerify(body, outcome)]
    /\ UNCHANGED <<gen, ver>>
    /\ UNCHANGED <<agentVars, call>>

ZkNext == ZkGenerate \/ ZkVerify \/ ZkPostVerify

SpecZK == ZkInit /\ [][ZkNext]_vars

\* ---------------------------------------------------------------------
\* The agent: resolvePolicy calls, POST /proof and executeAction.
\*
\* A call occupies a slot of `tasks` from its start to its completion; a
\* completed call stays in its slot until a new call takes the slot.  The
\* code between two awaits is one step.  The continuation after an await
\* on a settled promise (a cache hit, a throw, the stub of
\* executeActionInternal) touches only the call's own data, so it is
\* taken in the step that settles the promise.
\* ---------------------------------------------------------------------

\* Maximum history entries to keep in memory.
MAX_HISTORY == 100

\* Bounds of the exploration.
MaxCalls == 2
MaxTicks == 1
MaxResolvers == 2
MaxInFlight == 1

\* The clock advances by the cache duration or by a millisecond less, so
\* that a call can fall just before and exactly at an expiry.
TickSteps == {CACHE_DURATION_MS - 1, CACHE_DURATION_MS}

NameA == <<"a", ".", "e", "t", "h">>
NameAUpper == <<"A", ".", "e", "t", "h">>
NameB == <<"b", ".", "e", "t", "h">>
NameBad == <<"a", " ", "b">>
NormNames == {NameA, NameB}

Payment == <<"p", "a", "y", "m", "e", "n", "t">>
PaymentUpper == <<"P", "A", "Y", "M", "E", "N", "T">>
Transfer == <<"t", "r", "a", "n", "s", "f", "e", "r">>

\* The text records the registry holds: a.eth allows two actions up to
\* 100 USDC and has no version record, b.eth allows payments up to 1 USDC.
RecordsA ==
    [key \in ENS_POLICY_KEYS |->
        CASE key = "maxSpendUSDC"   -> Some(<<"1", "0", "0">>)
          [] key = "allowedActions" -> Some(<<" ", "T", "r", "a", "n", "s", "f", "e", "r", " ",
                                              ",", " ", "p", "a", "y", "m", "e", "n", "t">>)
          [] key = "policyVersion"  -> None]
RecordsB ==
    [key \in ENS_POLICY_KEYS |->
        CASE key = "maxSpendUSDC"   -> Some(<<"1">>)
          [] key = "allowedActions" -> Some(Payment)
          [] key = "policyVersion"  -> Some(<<"2", ".", "0">>)]
NoRecords == [key \in ENS_POLICY_KEYS |-> None]

\* publicClient.getEnsText for the three keys of a name.
OnChain(name) ==
    IF name = NameA THEN RecordsA ELSE IF name = NameB THEN RecordsB ELSE NoRecords

\* The inputs of the calls.
ResolveNames == {NameA, NameAUpper, NameB, NameBad}
ProofNames == {NameAUpper, NameB, <<>>}
ExecuteNames == {NameAUpper, NameB, NameBad}
Amounts == {10000000, 1500000000, -10000000}
ActionTypes == {Payment, PaymentUpper, Transfer}

\* Recipient addresses: a well-formed one, and one that is too short.
GoodAddress ==
    <<"0", "x", "7", "4", "2", "d", "3", "5", "C", "c", "6", "6", "3", "4", "C", "0",
      "5", "3", "2", "9", "2", "5", "a", "3", "b", "8", "4", "4", "B", "c", "9", "e",
      "7", "5", "9", "5", "f", "0", "b", "E", "b", "1">>
ShortAddress == <<"0", "x", "a", "b", "c">>
Recipients == {None, Some(GoodAddress), Some(ShortAddress)}

\* What a call answers: an HTTP status (0 when the call is not a route),
\* the success flag, the error code and message, the policy and the proof.
NoOut == [status |-> 0, success |-> FALSE, threw |-> FALSE, code |-> "", error |-> "",
          policy |-> None, proof |-> None]

IdleTask ==
    [kind |-> "none", pc |-> "idle", id |-> 0,
     ensName |-> <<>>, amount |-> 0, actionType |-> <<>>, recipient |-> None, mock |-> FALSE,
     norm |-> None, startedAt |-> 0, hit |-> FALSE, fetched |-> FALSE, cleared |-> FALSE,
     policy |-> None, executed |-> "none", payments |-> 0, proofCalls |-> 0,
     payment |-> None, flow |-> None, emitted |-> <<>>,
     out |-> NoOut]

NewTask(kind, ensName, amount, actionType, recipient, mock) ==
    [IdleTask EXCEPT !.kind = kind, !.pc = "started", !.id = calls + 1,
                     !.ensName = ensName, !.amount = amount, !.actionType = actionType,
                     !.recipient = recipient, !.mock = mock, !.startedAt = now]

Done(t, out) == [t EXCEPT !.pc = "done", !.out = out]

\* The nodes of the action flow, in the order of the stages.
FlowNodes == <<"ens-resolve", "policy-check", "execute-action", "proof-generate", "result">>

\* initializeActionFlow(executionId): the status of each node.
InitializeActionFlow == [i \in DOMAIN FlowNodes |-> "pending"]

\* The position of a node in the flow.
NodeIndex(nodeId) == CHOOSE i \in DOMAIN FlowNodes : FlowNodes[i] = nodeId

\* emitEvent(event) called by the execution in t: the events an execution
\* emits are kept with it, in the order of the calls.
Emitted(t, type, nodeId, status) ==
    [t EXCEPT !.emitted = Append(@, [type |-> type, nodeId |-> nodeId, status |-> status])]

\* executeAction's helper log(level, message, data): the entry is emitted as
\* a 'log' event.
Log(t, level) == Emitted(t, "log", "", level)

\* updateFlowNode(flow, nodeId, status): the node takes the status and a
\* 'node-update' event is emitted.
UpdateFlowNode(t, nodeId, status) ==
    Emitted([t EXCEPT !.flow[NodeIndex(nodeId)] = status], "node-update", nodeId, status)

\* executeAction from its entry to the call of resolveENSPolicy.
ExecuteStart(t) ==
    LET started == Log([t EXCEPT !.flow = InitializeActionFlow], "info")
    IN  Log(UpdateFlowNode(started, "ens-resolve", "running"), "info")

\* A catch block that rethrows instead of returning a result.
ExecutionFailedRethrowing(t, code, message) ==
    Done(Log(t, "error"), [NoOut EXCEPT !.code = code, !.error = message, !.threw = TRUE])

\* executeAction's catch block: the error is logged, the result node is
\* marked, the failed result is stored (by the step, see HistoryWith) and
\* emitted as the 'error' event, and returned.
ExecutionFailed(t, code, message) ==
    LET marked == UpdateFlowNode(Log(t, "error"), "result", "error")
    IN  Emitted(Done(marked, [NoOut EXCEPT !.code = code, !.error = message]),
                "error", "", "")

\* The proof stage started before the action is marked as done.
ActionDoneProofFirst(t) ==
    LET proving  == Log(UpdateFlowNode(t, "proof-generate", "running"), "info")
        executed == Log(UpdateFlowNode(proving, "execute-action", "success"), "info")
    IN  [executed EXCEPT !.pc = "proving", !.proofCalls = @ + 1]

\* executeAction once executeActionInternal has returned, up to the call
\* of generateProof.
ActionDone(t) ==
    LET executed == Log(UpdateFlowNode(t, "execute-action", "success"), "info")
        proving  == Log(UpdateFlowNode(executed, "proof-generate", "running"), "info")
    IN  [proving EXCEPT !.pc = "proving", !.proofCalls = @ + 1]

\* executeActionInternal up to its await: a payment with a recipient goes
\* to sendPayment; any other action is the stub, after which executeAction
\* invokes generateProof.
ExecuteActionInternal(t) ==
    IF t.actionType = Payment /\ t.recipient # None
    THEN [Log(t, "debug") EXCEPT !.pc = "executing", !.executed = "payment", !.payments = @ + 1]
    ELSE ActionDone([Log(t, "debug") EXCEPT !.executed = "stub"])

\* executeAction between the policy checks and the call of
\* executeActionInternal.
ChecksPassed(t) ==
    LET checked == Log(UpdateFlowNode(Log(t, "debug"), "policy-check", "success"), "info")
    IN  Log(UpdateFlowNode(checked, "execute-action", "running"), "info")

\* executeAction, step 2: the policy checks, then the action.
PolicyChecks(t, policy) ==
    LET resolved == Log(UpdateFlowNode(t, "ens-resolve", "success"), "info")
        checking == Log(UpdateFlowNode(resolved, "policy-check", "running"), "info")
    IN  IF ~IsActionAllowed(policy, t.actionType)
        THEN ExecutionFailed(checking, "ACTION_NOT_ALLOWED",
                             "Action type is not allowed by policy")
        ELSE IF ~IsAmountWithinLimit(policy, t.amount)
        THEN ExecutionFailed(Log(checking, "debug"), "AMOUNT_EXCEEDS_LIMIT",
                             "Amount exceeds policy limit")
        ELSE ExecuteActionInternal(ChecksPassed(Log(checking, "debug")))

\* POST /proof after the policy is known: the amount check, then the
\* call of generateProof.
ProofCheck(t, policy) ==
    IF t.amount > policy.maxSpendUSDC
    THEN Done(t, [NoOut EXCEPT !.status = 400, !.code = "POLICY_VIOLATION",
                               !.error = "Amount exceeds policy limit"])
    ELSE [t EXCEPT !.pc = "proving", !.proofCalls = @ + 1]

\* The caller's continuation once resolveENSPolicy returned `policy`.
AfterResolve(t, policy) ==
    LET u == [t EXCEPT !.policy = Some(policy)]
    IN  CASE t.kind = "resolve" -> Done(u, [NoOut EXCEPT !.success = TRUE,
                                                         !.policy = Some(policy)])
          [] t.kind = "policy"  -> Done(u, [NoOut EXCEPT !.status = 200, !.success = TRUE,
                                                         !.policy = Some(policy)])
          [] t.kind = "proof"   -> ProofCheck(u, policy)
          [] t.kind = "execute" -> PolicyChecks(u, policy)

\* The caller's continuation once resolveENSPolicy threw.  executeAction
\* rethrows a PolicyError, whose code its catch block does not read, and
\* wraps any other error; POST /proof answers 500 and GET /policy 400.
AfterThrow(t, isPolicyError, code, message) ==
    CASE t.kind = "resolve" -> Done(t, [NoOut EXCEPT !.code = code, !.error = message])
      [] t.kind = "policy"  -> Done(t, [NoOut EXCEPT !.status = 400, !.code = "POLICY_ERROR",
                                                     !.error = message])
      [] t.kind = "proof"   -> Done(t, [NoOut EXCEPT !.status = 500, !.code = "PROOF_ERROR",
                                                     !.error = message])
      [] t.kind = "execute" ->
            IF isPolicyError THEN ExecutionFailed(t, "UNKNOWN_ERROR", message)
            ELSE ExecutionFailed(t, "ENS_RESOLUTION_FAILED", "Failed to resolve ENS name")

\* addToHistory(result)
AddToHistory(history, result) ==
    LET grown == <<result>> \o history
    IN  IF Len(grown) > MAX_HISTORY THEN SubSeq(grown, 1, Len(grown) - 1) ELSE grown

\* The history once the call in `t` took a step: executeAction adds its
\* result when it completes.
HistoryWith(t) ==
    IF t.kind = "execute" /\ t.pc = "done" /\ ~t.out.threw
    THEN AddToHistory(executionHistory, [executionId |-> t.id, success |-> t.out.success])
    ELSE executionHistory

\* resolveENSPolicy up to its await, for the new call t in slot s:
\* normalize, the cache test, then the fetch is issued.
ResolveBegin(s, t) ==
    \E n \in {Normalize(t.ensName)} :
    \E u \in {IF n = None
              THEN AfterThrow(t, FALSE, "", "Invalid ENS name")
              ELSE IF CacheHit(policyCache, n[1], now)
              THEN AfterResolve([t EXCEPT !.norm = n, !.hit = TRUE], policyCache[n[1]].policy)
              ELSE [t EXCEPT !.norm = n, !.fetched = TRUE, !.pc = "fetching"]} :
        /\ tasks' = [tasks EXCEPT ![s] = u]
        /\ fetches' = IF u.fetched THEN [fetches EXCEPT ![n[1]] = @ + 1] ELSE fetches
        /\ executionHistory' = HistoryWith(u)

\* A new call may take slot s.
Free(s) == tasks[s].pc \in {"idle", "done"} /\ calls < MaxCalls

\* resolveENSPolicy(ensName), called on its own (GET /policy, a script).
ResolvePolicyCall(s, ensName) ==
    /\ Free(s)
    /\ calls' = calls + 1
    /\ ResolveBegin(s, NewTask("resolve", ensName, 0, <<>>, None, FALSE))
    /\ UNCHANGED <<now, ticks, policyCache, nextRef, zkVars, eventListeners, call>>

\* POST /proof with body {amount, ensName} and the query flag mock, up to
\* its first await.
PostProof(s, ensName, amount, mock) ==
    LET t == NewTask("proof", ensName, amount, <<>>, None, mock)
        invalid == Done(t, [NoOut EXCEPT !.status = 400, !.code = "VALIDATION_ERROR",
                                         !.error = "Invalid request"])
    IN  /\ Free(s)
        /\ calls' = calls + 1
        /\ IF amount < 0 \/ ensName = <<>>
           THEN /\ tasks' = [tasks EXCEPT ![s] = invalid]
                /\ UNCHANGED <<fetches, executionHistory, nextRef>>
           ELSE IF mock
           THEN /\ tasks' = [tasks EXCEPT ![s] =
                                ProofCheck([t EXCEPT !.policy =
                                                Some(CreateMockPolicy(ensName, now, nextRef))],
                                           CreateMockPolicy(ensName, now, nextRef))]
                /\ nextRef' = nextRef + 1
                /\ UNCHANGED <<fetches, executionHistory>>
           ELSE /\ ResolveBegin(s, t)
                /\ UNCHANGED nextRef
        /\ UNCHANGED <<now, ticks, policyCache, zkVars, eventListeners, call>>

\* executeAction(request) up to its first await.
ExecuteAction(s, ensName, actionType, amount, recipient) ==
    /\ Free(s)
    /\ calls' = calls + 1
    /\ ResolveBegin(s, ExecuteStart(NewTask("execute", ensName, amount, actionType,
                                             recipient, FALSE)))
    /\ UNCHANGED <<now, ticks, policyCache, nextRef, zkVars, eventListeners, call>>

\* GET /policy/:ensName with the query flag mock, up to its first await.
GetPolicy(s, ensName, mock) ==
    LET t == NewTask("policy", ensName, 0, <<>>, None, mock)
        policy == CreateMockPolicy(ensName, now, nextRef)
    IN  /\ Free(s)
        /\ calls' = calls + 1
        /\ IF mock
           THEN /\ tasks' = [tasks EXCEPT ![s] =
                                Done([t EXCEPT !.policy = Some(policy)],
                                     [NoOut EXCEPT !.status = 200, !.success = TRUE,
                                                   !.policy = Some(policy)])]
                /\ nextRef' = nextRef + 1
                /\ UNCHANGED <<fetches, executionHistory>>
           ELSE /\ ResolveBegin(s, t)
                /\ UNCHANGED nextRef
        /\ UNCHANGED <<now, ticks, policyCache, zkVars, eventListeners, call>>

\* POST /execute with body {ensName, actionType, amount, recipient} and
\* the query flag mock, up to its first await: the validation, then
\* executeAction(request).  The handler reads the flag into useMock and
\* passes only the body on; the flag is kept with the call to tell what
\* was asked.  The POST answers 200 with the ExecuteResult.
PostExecute(s, ensName, actionType, amount, recipient, mock) ==
    LET invalid == Done(NewTask("validation", ensName, amount, actionType, recipient, mock),
                        [NoOut EXCEPT !.status = 400, !.code = "VALIDATION_ERROR",
                                      !.error = "Invalid request"])
    IN  /\ Free(s)
        /\ calls' = calls + 1
        /\ IF ensName = <<>> \/ actionType = <<>> \/ amount < 0
           THEN /\ tasks' = [tasks EXCEPT ![s] = invalid]
                /\ UNCHANGED <<fetches, executionHistory>>
           ELSE ResolveBegin(s, ExecuteStart(NewTask("execute", ensName, amount, actionType,
                                                     recipient, mock)))
        /\ UNCHANGED <<now, ticks, policyCache, nextRef, zkVars, eventListeners, call>>

\* The cache after parsePolicy threw, were the stale entry of the name
\* purged on failure.
CacheAfterFailurePurging(cache, name) ==
    [k \in DOMAIN cache \ {name} |-> cache[k]]

\* The cache after parsePolicy threw: resolveENSPolicy has not reached
\* policyCache.set.
CacheAfterFailure(cache, name) == cache

\* The lookups of fetchENSTextRecords have settled, those of the keys in
\* `failed` by rejection: resolveENSPolicy parses, stores and returns, or
\* parsePolicy throws.
FetchReturns(s, failed) ==
    /\ tasks[s].pc = "fetching"
    /\ \E t \in {tasks[s]} :
       \E r \in {ParsePolicy(t.norm[1], FetchENSTextRecords(OnChain(t.norm[1]), failed),
                             now, nextRef)} :
       \E u \in {IF r.ok THEN AfterResolve(t, r.policy[1])
                          ELSE AfterThrow(t, TRUE, r.code, r.message)} :
        /\ tasks' = [tasks EXCEPT ![s] = u]
        /\ policyCache' = IF r.ok
                          THEN CacheSet(policyCache, t.norm[1],
                                        [policy |-> r.policy[1],
                                         expiresAt |-> now + CACHE_DURATION_MS])
                          ELSE CacheAfterFailure(policyCache, t.norm[1])
        /\ nextRef' = IF r.ok THEN nextRef + 1 ELSE nextRef
        /\ executionHistory' = HistoryWith(u)
        /\ UNCHANGED <<now, ticks, fetches, calls, zkVars, eventListeners, call>>

\* isValidAddress(address): /^0x[a-fA-F0-9]{40}$/
HexDigits ==
    {"0", "1", "2", "3", "4", "5", "6", "7", "8", "9",
     "a", "b", "c", "d", "e", "f", "A", "B", "C", "D", "E", "F"}
IsValidAddress(address) ==
    /\ Len(address) = 42
    /\ address[1] = "0"
    /\ address[2] = "x"
    /\ \A i \in 3..42 : address[i] \in HexDigits

\* sendPayment(request): the PaymentResult, which reports a malformed
\* recipient as a failed payment.
SendPayment(recipient) ==
    IF ~IsValidAddress(recipient)
    THEN [success |-> FALSE, status |-> "failed", error |-> "Invalid recipient address format"]
    ELSE [success |-> TRUE, status |-> "simulated", error |-> ""]

\* sendPayment has returned (it never throws); executeActionInternal
\* returns the payment result and executeAction goes on to invoke
\* generateProof.
ActionReturns(s) ==
    /\ tasks[s].pc = "executing"
    /\ tasks' = [tasks EXCEPT ![s] =
                    ActionDone([@ EXCEPT !.payment = Some(SendPayment(tasks[s].recipient[1]))])]
    /\ UNCHANGED <<now, ticks, policyCache, nextRef, fetches, calls, executionHistory, zkVars, eventListeners, call>>

\* executeAction once generateProof has settled with r: a failed proof is
\* logged and marked on its node, the result node is marked, the result
\* is stored (by the step, see HistoryWith), emitted as the 'complete'
\* event, logged and returned.
ExecutionComplete(t, r) ==
    LET proved == IF r.ok
                  THEN Log(UpdateFlowNode(t, "proof-generate", "success"), "info")
                  ELSE UpdateFlowNode(Log(t, "warn"), "proof-generate", "error")
        marked == UpdateFlowNode(proved, "result", "success")
        result == [NoOut EXCEPT !.success = TRUE, !.policy = t.policy,
                                !.proof = IF r.ok THEN Some(r.zk) ELSE None]
    IN  Log(Emitted(Done(marked, result), "complete", "", ""), "info")

\* generateProof has settled, in the environment env.  POST /proof answers
\* with the proof or with 500; executeAction completes successfully with
\* or without a proof.
ProofReturns(s, env) ==
    /\ tasks[s].pc = "proving"
    /\ \E t \in {tasks[s]} :
       \E r \in {GenerateProof([amount |-> t.amount, maxSpend |-> t.policy[1].maxSpendUSDC,
                                policyHash |-> t.policy[1].policyHash], env)} :
       \E u \in {IF t.kind = "proof"
                 THEN IF r.ok
                      THEN Done(t, [NoOut EXCEPT !.status = 200, !.success = TRUE,
                                                 !.policy = t.policy, !.proof = Some(r.zk)])
                      ELSE Done(t, [NoOut EXCEPT !.status = 500, !.code = "PROOF_ERROR",
                                                 !.error = r.error])
                 ELSE ExecutionComplete(t, r)} :
        /\ tasks' = [tasks EXCEPT ![s] = u]
        /\ executionHistory' = HistoryWith(u)
        /\ UNCHANGED <<now, ticks, policyCache, nextRef, fetches, calls, zkVars, eventListeners, call>>

\* Time passes.
Tick(d) ==
    /\ ticks < MaxTicks
    /\ ticks' = ticks + 1
    /\ now' = now + d
    /\ UNCHANGED <<policyCache, nextRef, fetches, calls, tasks, executionHistory, zkVars, eventListeners, call>>

\* clearPolicyCache().  Every call made so far has seen a clear.
ClearPolicyCache ==
    /\ policyCache' = EmptyMap
    /\ tasks' = [s \in DOMAIN tasks |->
                    IF tasks[s].pc = "idle" THEN tasks[s] ELSE [tasks[s] EXCEPT !.cleared = TRUE]]
    /\ UNCHANGED <<now, ticks, nextRef, fetches, calls, executionHistory, zkVars, eventListeners, call>>

AgentInit(slots) ==
    /\ gen = NoCall
    /\ ver = NoCall
    /\ resp = NoCall
    /\ now = 0
    /\ policyCache = EmptyMap
    /\ nextRef = 1
    /\ fetches = [n \in NormNames |-> 0]
    /\ calls = 0
    /\ ticks = 0
    /\ tasks = [s \in 1..slots |-> IdleTask]
    /\ executionHistory = <<>>
    /\ eventListeners = <<>>
    /\ call = NoCall

\* The resolver with its cache, under concurrent callers.
CacheInit == AgentInit(MaxResolvers)

CacheNext ==
    \/ \E s \in DOMAIN tasks, ensName \in ResolveNames : ResolvePolicyCall(s, ensName)
    \/ \E s \in DOMAIN tasks, failed \in SUBSET ENS_POLICY_KEYS : FetchReturns(s, failed)
    \/ \E d \in TickSteps : Tick(d)
    \/ ClearPolicyCache

SpecCache == CacheInit /\ [][CacheNext]_vars

\* The entry points: the routes of the server and executeAction called
\* directly.
ServerInit == AgentInit(MaxInFlight)

ServerNext ==
    \/ \E s \in DOMAIN tasks, ensName \in ProofNames, amount \in Amounts, mock \in BOOLEAN :
            PostProof(s, ensName, amount, mock)
    \/ \E s \in DOMAIN tasks, ensName \in ExecuteNames, actionType \in ActionTypes,
          amount \in Amounts, recipient \in Recipients :
            ExecuteAction(s, ensName, actionType, amount, recipient)
    \/ \E s \in DOMAIN tasks, ensName \in {NameB, <<>>}, amount \in Amounts,
          recipient \in Recipients, mock \in BOOLEAN :
            PostExecute(s, ensName, Payment, amount, recipient, mock)
    \/ \E s \in DOMAIN tasks, ensName \in {NameB, NameBad}, mock \in BOOLEAN :
            GetPolicy(s, ensName, mock)
    \/ \E s \in DOMAIN tasks, failed \in SUBSET ENS_POLICY_KEYS : FetchReturns(s, failed)
    \/ \E s \in DOMAIN tasks : ActionReturns(s)
    \/ \E s \in DOMAIN tasks, env \in ZkEnvs : ProofReturns(s, env)
    \/ \E d \in TickSteps : Tick(d)

SpecServer == ServerInit /\ [][ServerNext]_vars

\* ---------------------------------------------------------------------
\* The pure functions, applied to drawn arguments
\* ---------------------------------------------------------------------

\* Texts of the maxSpendUSDC record: missing, "", "100", "abc", "-5",
\* "1.5", "0", " 7", "12ab", ".".
MaxSpendTexts ==
    {None, Some(<<>>), Some(<<"1", "0", "0">>), Some(<<"a", "b", "c">>), Some(<<"-", "5">>),
     Some(<<"1", ".", "5">>), Some(<<"0">>), Some(<<" ", "7">>), Some(<<"1", "2", "a", "b">>),
     Some(<<".">>)}

\* Texts of the allowedActions record: missing, "", ",", " , ", "payment",
\* "transfer,payment", " Transfer , payment", "payment,,".
AllowedActionsTexts ==
    {None, Some(<<>>), Some(<<",">>), Some(<<" ", ",", " ">>), Some(Payment),
     Some(Transfer \o <<",">> \o Payment), RecordsA["allowedActions"],
     Some(Payment \o <<",", ",">>)}

\* Texts of the policyVersion record: missing, "", "2.0".
PolicyVersionTexts == {None, Some(<<>>), Some(<<"2", ".", "0">>)}

\* The records objects and registry contents drawn from those texts.
RecordsOf(maxSpend, allowedActions, policyVersion) ==
    [key \in ENS_POLICY_KEYS |->
        CASE key = "maxSpendUSDC"   -> maxSpend
          [] key = "allowedActions" -> allowedActions
          [] key = "policyVersion"  -> policyVersion]

\* One application per behaviour: parsePolicy applied to a records object.
PureParsePolicy ==
    \E m \in MaxSpendTexts, a \in AllowedActionsTexts, v \in PolicyVersionTexts :
        \E records \in {RecordsOf(m, a, v)} :
            /\ call = NoCall
            /\ call' = [op      |-> "parsePolicy",
                        records |-> records,
                        out     |-> ParsePolicy(NameA, records, 0, 1)]
            /\ UNCHANGED <<zkVars, agentVars>>

\* resolveENSPolicy on a cache miss: fetchENSTextRecords on a registry
\* holding onChain, the lookups of the keys in failed being rejected, then
\* parsePolicy on the records it built.
PureFetchAndParse ==
    \E m \in MaxSpendTexts, a \in AllowedActionsTexts, v \in PolicyVersionTexts,
       failed \in SUBSET ENS_POLICY_KEYS :
        \E records \in {FetchENSTextRecords(RecordsOf(m, a, v), failed)} :
            /\ call = NoCall
            /\ call' = [op      |-> "fetchAndParse",
                        onChain |-> RecordsOf(m, a, v),
                        failed  |-> failed,
                        records |-> records,
                        out     |-> ParsePolicy(NameA, records, 0, 1)]
            /\ UNCHANGED <<zkVars, agentVars>>

\* The longest list of allowed actions drawn.
MaxActions == 3

Swap == <<"s", "w", "a", "p">>

\* Lists of allowed actions.
ActionLists == UNION {[1..n -> {Payment, Transfer, Swap}] : n \in 1..MaxActions}

\* The text of an allowedActions record: the entries joined by commas.
RECURSIVE Join(_, _)
Join(seq, i) ==
    IF i > Len(seq) THEN <<>>
    ELSE (IF i > 1 THEN <<",">> ELSE <<>>) \o seq[i] \o Join(seq, i + 1)

\* The same attributes resolved twice: under two names, at two times, into
\* two objects, the allowed actions written in two orders (p permutes the
\* positions of the list).
PureHashTwice ==
    \E m \in {Some(<<"1", "0", "0">>), Some(<<"1", ".", "5">>), Some(<<"0">>)},
       v \in {None, Some(<<"2", ".", "0">>)},
       list \in ActionLists :
    \E p \in Permutations(1..Len(list)) :
    \E other \in {Tuple([i \in 1..Len(list) |-> list[p[i]]])} :
        /\ call = NoCall
        /\ call' = [op     |-> "computePolicyHash",
                    first  |-> ParsePolicy(NameA, RecordsOf(m, Some(Join(list, 1)), v), 0, 1),
                    second |-> ParsePolicy(NameB, RecordsOf(m, Some(Join(other, 1)), v),
                                           CACHE_DURATION_MS, 2),
                    list   |-> list,
                    other  |-> other]
        /\ UNCHANGED <<zkVars, agentVars>>

\* Limits and amounts around the two boundaries of isAmountWithinLimit:
\* 0, 1, 1.5 and 100 USDC, each with its neighbours one 10^-7 away, and
\* the amounts of the test script (50, 100, 150).
LimitValues == {0, DecimalUnit, 15 * (DecimalUnit \div 10), 100 * DecimalUnit}
AmountValues ==
    UNION {{l - 1, l, l + 1} : l \in LimitValues}
    \cup {-DecimalUnit, 50 * DecimalUnit, 150 * DecimalUnit}

\* isAmountWithinLimit applied to the mock policy of the test script, or to
\* it with another limit.
PureIsAmountWithinLimit ==
    \E limit \in LimitValues, amount \in AmountValues :
    \E policy \in {[CreateMockPolicy(NameA, 0, 1) EXCEPT !.maxSpendUSDC = limit]} :
        /\ call = NoCall
        /\ call' = [op     |-> "isAmountWithinLimit",
                    policy |-> policy,
                    amount |-> amount,
                    out    |-> IsAmountWithinLimit(policy, amount)]
        /\ UNCHANGED <<zkVars, agentVars>>

\* The scaled-down instances of the circuit: a prime field of FieldOrder
\* elements and the widths n that LessThan(n) admits over it.
FieldOrder == 31
MaxWidth == 3
CircuitWidths == {n \in 1..MaxWidth : 2 ^ (n + 1) < FieldOrder}

\* The constraints of PolicyCompliance(n) solved for inputs that range
\* over the whole field.
PureCircuit ==
    \E n \in CircuitWidths, amount \in 0..(FieldOrder - 1), maxSpend \in 0..(FieldOrder - 1),
       policyHash \in {0, 5} :
        /\ call = NoCall
        /\ call' = [op         |-> "PolicyCompliance",
                    n          |-> n,
                    amount     |-> amount,
                    maxSpend   |-> maxSpend,
                    policyHash |-> policyHash,
                    witnesses  |-> PolicyComplianceOver(FieldOrder, n, amount, maxSpend,
                                                        policyHash)]
        /\ UNCHANGED <<zkVars, agentVars>>

PureInit ==
    /\ gen = NoCall
    /\ ver = NoCall
    /\ resp = NoCall
    /\ now = 0
    /\ policyCache = <<>>
    /\ nextRef = 1
    /\ fetches = <<>>
    /\ calls = 0
    /\ ticks = 0
    /\ tasks = <<>>
    /\ executionHistory = <<>>
    /\ eventListeners = <<>>
    /\ call = NoCall

PureNext ==
    \/ PureParsePolicy
    \/ PureFetchAndParse
    \/ PureHashTwice
    \/ PureIsAmountWithinLimit
    \/ PureCircuit

SpecPure == PureInit /\ [][PureNext]_vars

\* The pure function whose application the state holds.
Applied(op) == call # NoCall /\ call.op = op

\* ---------------------------------------------------------------------
\* The execution history
\*
\* SpecHistory starts from the history a run of the program has left (no
\* execution yet, one, one short of MAX_HISTORY, MAX_HISTORY of them);
\* executions complete and the history is read.
\* ---------------------------------------------------------------------

\* Array.prototype.slice(start, end) on integer arguments: a negative
\* index counts from the end, both are clamped to the array.
ArraySlice(array, start, end) ==
    LET len      == Len(array)
        Clamp(k) == IF k < 0 THEN (IF len + k < 0 THEN 0 ELSE len + k)
                    ELSE (IF k > len THEN len ELSE k)
    IN  IF Clamp(end) > Clamp(start)
        THEN SubSeq(array, Clamp(start) + 1, Clamp(end))
        ELSE <<>>

\* getExecutionHistory(limit)
GetExecutionHistory(history, limit) == ArraySlice(history, 0, limit)

\* The history after n executions completed, every third one failed.
PastHistory(n) ==
    [i \in 1..n |-> [executionId |-> n + 1 - i, success |-> (n + 1 - i) % 3 # 0]]

HistoryLengths == {0, 1, MAX_HISTORY - 1, MAX_HISTORY}

\* The limits of GET /history?limit=..., as parseInt reads them (the route
\* replaces 0 by 10).
HistoryLimits == {-1, 0, 1, 10, MAX_HISTORY, MAX_HISTORY + 1}

\* The id of the execution that completes next.
NextExecutionId ==
    IF executionHistory = <<>> THEN 1 ELSE executionHistory[1].executionId + 1

\* An execution completes: executeAction stores its result.
ExecutionCompletes(success) ==
    /\ calls < MaxCalls
    /\ calls' = calls + 1
    /\ executionHistory' = AddToHistory(executionHistory,
                                        [executionId |-> NextExecutionId, success |-> success])
    /\ UNCHANGED <<now, ticks, policyCache, nextRef, fetches, tasks, zkVars, eventListeners, call>>

\* getExecutionHistory(limit) is called.
ReadHistory(limit) ==
    /\ call' = [op      |-> "getExecutionHistory",
                limit   |-> limit,
                history |-> executionHistory,
                out     |-> GetExecutionHistory(executionHistory, limit)]
    /\ UNCHANGED <<now, ticks, policyCache, nextRef, fetches, calls, tasks, executionHistory,
                   zkVars, eventListeners>>

HistoryInit ==
    /\ gen = NoCall
    /\ ver = NoCall
    /\ resp = NoCall
    /\ now = 0
    /\ policyCache = <<>>
    /\ nextRef = 1
    /\ fetches = <<>>
    /\ calls = 0
    /\ ticks = 0
    /\ tasks = <<>>
    /\ executionHistory \in {PastHistory(n) : n \in HistoryLengths}
    /\ eventListeners = <<>>
    /\ call = NoCall

HistoryNext ==
    \/ \E success \in BOOLEAN : ExecutionCompletes(success)
    \/ \E limit \in HistoryLimits : ReadHistory(limit)

SpecHistory == HistoryInit /\ [][HistoryNext]_vars

\* ---------------------------------------------------------------------
\* The event listeners
\*
\* A listener is the function given to subscribeToEvents, known by an id
\* and by what it does when it is called: it writes the event to its
\* stream (the listener of GET /events), it throws, or it calls the
\* unsubscribe function it was handed (a listener that wants one event).
\* ---------------------------------------------------------------------

MaxListeners == 3

ListenerKinds == {"write", "throw", "unsubscribe"}

\* The events of ExecutionEvent.type that emitEvent is called with here.
EventTypes == {"node-update", "complete"}

\* The ids of the listeners in the array.
Subscribed(listeners) == {listeners[i].id : i \in DOMAIN listeners}

\* The unsubscribe function returned by subscribeToEvents: indexOf, then
\* splice(index, 1) when the listener is in the array.
Unsubscribed(listeners, id) ==
    IF id \notin Subscribed(listeners) THEN listeners
    ELSE LET index == CHOOSE i \in DOMAIN listeners :
                        /\ listeners[i].id = id
                        /\ \A j \in 1..(i - 1) : listeners[j].id # id
         IN  SubSeq(listeners, 1, index - 1) \o SubSeq(listeners, index + 1, Len(listeners))

\* The loop of emitEvent from position i on: `for (const listener of
\* eventListeners)` walks the array itself, by an index that is compared
\* with the length of the array at each turn.  An exception of a listener
\* is caught and logged.  `called` lists the listeners called so far.
RECURSIVE Deliver(_, _, _)
Deliver(listeners, i, called) ==
    IF i > Len(listeners) THEN [listeners |-> listeners, called |-> called]
    ELSE LET listener == listeners[i]
             after    == IF listener.does = "unsubscribe"
                         THEN Unsubscribed(listeners, listener.id)
                         ELSE listeners
         IN  Deliver(after, i + 1, Append(called, listener.id))

\* subscribeToEvents(listener), the listener being a new function.
SubscribeToEvents(does) ==
    /\ Len(eventListeners) < MaxListeners
    /\ \E id \in {CHOOSE n \in 1..MaxListeners : n \notin Subscribed(eventListeners)} :
        eventListeners' = Append(eventListeners, [id |-> id, does |-> does])
    /\ UNCHANGED <<now, ticks, policyCache, nextRef, fetches, calls, tasks, executionHistory,
                   zkVars, call>>

\* The unsubscribe function of a listener is called between two events
\* (the client of GET /events has disconnected).
Unsubscribe(id) ==
    /\ id \in Subscribed(eventListeners)
    /\ eventListeners' = Unsubscribed(eventListeners, id)
    /\ UNCHANGED <<now, ticks, policyCache, nextRef, fetches, calls, tasks, executionHistory,
                   zkVars, call>>

\* emitEvent(event): the listeners subscribed when it is called, those it
\* called, and whether an exception left it.
EmitEvent(type) ==
    \E r \in {Deliver(eventListeners, 1, <<>>)} :
        /\ eventListeners' = r.listeners
        /\ call' = [op         |-> "emitEvent",
                    type       |-> type,
                    subscribed |-> eventListeners,
                    called     |-> r.called,
                    threw      |-> FALSE]
        /\ UNCHANGED <<now, ticks, policyCache, nextRef, fetches, calls, tasks, executionHistory,
                       zkVars>>

EventsInit ==
    /\ gen = NoCall
    /\ ver = NoCall
    /\ resp = NoCall
    /\ now = 0
    /\ policyCache = <<>>
    /\ nextRef = 1
    /\ fetches = <<>>
    /\ calls = 0
    /\ ticks = 0
    /\ tasks = <<>>
    /\ executionHistory = <<>>
    /\ eventListeners = <<>>
    /\ call = NoCall

EventsNext ==
    \/ \E does \in ListenerKinds : SubscribeToEvents(does)
    \/ \E id \in 1..MaxListeners : Unsubscribe(id)
    \/ \E type \in EventTypes : EmitEvent(type)

SpecEvents == EventsInit /\ [][EventsNext]_vars

\* ---------------------------------------------------------------------
\* Claims about the proof subsystem (checked under SpecZK)
\* ---------------------------------------------------------------------

\* C3: for every input with amount > maxSpend, generateProof returns no
\* proof and fails with an error, with the circuit artifacts absent and
\* with them present.
C3_ExceedingAmountFails ==
    (Generated /\ gen.inputs.amount > gen.inputs.maxSpend) => ~gen.out.ok

\* An amount on the 10^-6 grid: a whole number of smallest units.
OnMicroGrid(n) == n % (DecimalUnit \div MicroUnits) = 0
SmallestUnit == DecimalUnit \div MicroUnits

\* C4: for amounts in units of 10^-6 (a well-formed policy hash, limits
\* that are not negative), generateProof with amount = maxSpend succeeds
\* with validity flag publicSignals[1] = 1 (the second signal), and with
\* amount = maxSpend + 10^-6 yields no proof.
C4_Boundary ==
    (/\ Generated
     /\ OnMicroGrid(gen.inputs.amount)
     /\ OnMicroGrid(gen.inputs.maxSpend)
     /\ IsBigIntString(gen.inputs.policyHash))
    => /\ gen.inputs.amount = gen.inputs.maxSpend
            => (gen.out.ok /\ gen.out.zk.publicSignals[2] = 1)
       /\ gen.inputs.amount = gen.inputs.maxSpend + SmallestUnit => ~gen.out.ok

C6_RejectedProofIsAValue ==
    /\ (ver # NoCall /\ ver.vkeyLoadable)
            => (~ver.out.threw /\ ver.out.error = None)
    /\ resp # NoCall =>
        /\ (~Malformed(resp.body) /\ resp.vkeyLoadable)
                => /\ resp.res.status = 200
                   /\ resp.res.success
                   /\ resp.res.data # None
                   /\ resp.res.data[1].error = None
                   /\ resp.res.data[1].valid
                        = Groth16Verify(resp.body[1].publicSignals[1], resp.body[1].proof[1])
        /\ (resp.res.status # 200 \/ resp.res.data[1].error # None)
                => (Malformed(resp.body) \/ ~resp.vkeyLoadable)

C6_Witness ==
    /\ resp # NoCall
    /\ ~Malformed(resp.body)
    /\ resp.vkeyLoadable
    /\ resp.res.status = 200
    /\ resp.res.success
    /\ ~resp.res.data[1].valid

\* ---------------------------------------------------------------------
\* Claims about the compliance gate (SpecServer)
\* ---------------------------------------------------------------------

\* The call in slot s is a request whose amount exceeds the maxSpend of
\* the policy resolved for it.
Exceeds(t) ==
    /\ t.kind \in {"proof", "execute"}
    /\ t.policy # None
    /\ t.amount > t.policy[1].maxSpendUSDC

\* The action type of the call is in the allowed actions of its policy.
ActionListed(t) == Includes(t.policy[1].allowedActions, ToLowerCase(t.actionType))

\* C1, as stated: whenever the amount exceeds the maxSpend of the policy
\* resolved for the request, the request is rejected with POLICY_VIOLATION
\* or AMOUNT_EXCEEDS_LIMIT and generateProof is never invoked for it.
C1_ExceedingAmountIsLimitError ==
    \A s \in DOMAIN tasks :
        Exceeds(tasks[s]) =>
            /\ tasks[s].proofCalls = 0
            /\ tasks[s].pc = "done"
            /\ ~tasks[s].out.success
            /\ tasks[s].out.code \in {"POLICY_VIOLATION", "AMOUNT_EXCEEDS_LIMIT"}

\* C1, amended: whenever the amount exceeds the maxSpend of the policy
\* resolved for the request, the request is rejected and generateProof is
\* never invoked for it; POST /proof rejects with POLICY_VIOLATION,
\* executeAction with AMOUNT_EXCEEDS_LIMIT when the action type is allowed
\* and with ACTION_NOT_ALLOWED when it is not (that check comes first).
C1_ExceedingAmountIsRejectedBeforeProof ==
    \A s \in DOMAIN tasks :
        Exceeds(tasks[s]) =>
            /\ tasks[s].proofCalls = 0
            /\ tasks[s].pc = "done"
            /\ ~tasks[s].out.success
            /\ tasks[s].out.proof = None
            /\ tasks[s].out.code =
                  IF tasks[s].kind = "proof" THEN "POLICY_VIOLATION"
                  ELSE IF ActionListed(tasks[s]) THEN "AMOUNT_EXCEEDS_LIMIT"
                  ELSE "ACTION_NOT_ALLOWED"

\* C1, witness: an executeAction whose action type is allowed and whose
\* amount exceeds the resolved limit has been rejected.
C1_Witness ==
    \E s \in DOMAIN tasks :
        /\ Exceeds(tasks[s])
        /\ tasks[s].kind = "execute"
        /\ ActionListed(tasks[s])
        /\ tasks[s].out.code = "AMOUNT_EXCEEDS_LIMIT"

\* C2: in executeAction the payment call and any other action execution
\* happen only once the policy is resolved, the action type is allowed
\* and 0 <= amount <= maxSpend; an execution that fails at resolution or
\* at a check has made no payment call and executed nothing.
C2_ActionOnlyAfterChecks ==
    \A s \in DOMAIN tasks :
        tasks[s].kind = "execute" =>
            /\ (tasks[s].payments > 0) = (tasks[s].executed = "payment")
            /\ (tasks[s].executed # "none") =>
                  /\ tasks[s].policy # None
                  /\ ActionListed(tasks[s])
                  /\ 0 <= tasks[s].amount
                  /\ tasks[s].amount <= tasks[s].policy[1].maxSpendUSDC
            /\ (tasks[s].pc = "done" /\ ~tasks[s].out.success) =>
                  tasks[s].payments = 0 /\ tasks[s].executed = "none"

\* C2, witness: an execution has called sendPayment and completed.
C2_Witness ==
    \E s \in DOMAIN tasks :
        /\ tasks[s].kind = "execute"
        /\ tasks[s].payments = 1
        /\ tasks[s].pc = "done"
        /\ tasks[s].out.success

\* ---------------------------------------------------------------------
\* Claims about the policy cache (SpecCache)
\* ---------------------------------------------------------------------

\* The entry of a name in a cache, None when there is none.
Entry(cache, name) == IF name \in DOMAIN cache THEN Some(cache[name]) ELSE None

\* In this step a new call starts in slot s.
Starts(s) == tasks'[s].id # tasks[s].id

\* In this step the fetch of the call in slot s returns.
Returns(s) == tasks[s].pc = "fetching" /\ tasks'[s].pc # "fetching"

\* Two resolvePolicy calls for the same normalized name that have both
\* returned a policy, started less than the cache duration apart, neither
\* having seen a clear.
SameWindow(s1, s2) ==
    /\ s1 # s2
    /\ tasks[s1].kind = "resolve" /\ tasks[s1].pc = "done" /\ tasks[s1].out.success
    /\ tasks[s2].kind = "resolve" /\ tasks[s2].pc = "done" /\ tasks[s2].out.success
    /\ tasks[s1].norm # None /\ tasks[s1].norm = tasks[s2].norm
    /\ ~tasks[s1].cleared /\ ~tasks[s2].cleared
    /\ Abs(tasks[s1].startedAt - tasks[s2].startedAt) < CACHE_DURATION_MS

\* C7, as stated: any two resolvePolicy calls for the same normalized name
\* within one TTL window, without a clear in between, return the identical
\* Policy object, and exactly one of them fetched.
C7_AnyTwoCallsShareOneFetch ==
    \A s1, s2 \in DOMAIN tasks :
        SameWindow(s1, s2) =>
            /\ tasks[s1].out.policy = tasks[s2].out.policy
            /\ tasks[s1].fetched # tasks[s2].fetched

\* C7, amended: a resolvePolicy call that starts while the cache holds an
\* unexpired entry for its normalized name returns that entry's Policy
\* object (same identity, fetchedAt and fingerprint), fetches nothing and
\* leaves the cache as it is.
C7_UnexpiredEntryIsReturned ==
    [][\A s \in DOMAIN tasks :
          ( /\ Starts(s)
            /\ tasks'[s].norm # None
            /\ Entry(policyCache, tasks'[s].norm[1]) # None
            /\ now < policyCache[tasks'[s].norm[1]].expiresAt )
          => /\ tasks'[s].pc = "done"
             /\ tasks'[s].out.success
             /\ tasks'[s].out.policy = Some(policyCache[tasks'[s].norm[1]].policy)
             /\ fetches' = fetches
             /\ policyCache' = policyCache]_vars

\* C7, witness: two calls with differently written names of one
\* normalized name have completed, the first fetched, the second was
\* served the same object from the cache, and one fetch was made.
C7_Witness ==
    \E s1, s2 \in DOMAIN tasks :
        /\ SameWindow(s1, s2)
        /\ tasks[s1].ensName # tasks[s2].ensName
        /\ tasks[s1].fetched /\ tasks[s2].hit
        /\ tasks[s1].out.policy = tasks[s2].out.policy
        /\ fetches[tasks[s1].norm[1]] = 1

\* C8: an entry is served exactly while now < expiresAt; a stored entry
\* expires CACHE_DURATION_MS after the time it is stored; a call at or
\* after expiresAt fetches again, and its successful fetch replaces the
\* entry by a new Policy object with a later expiry.
C8_TtlExpiry ==
    [][ /\ \A s \in DOMAIN tasks :
              ( /\ Starts(s)
                /\ tasks'[s].norm # None
                /\ Entry(policyCache, tasks'[s].norm[1]) # None )
              => /\ tasks'[s].hit = (now < policyCache[tasks'[s].norm[1]].expiresAt)
                 /\ tasks'[s].fetched = (now >= policyCache[tasks'[s].norm[1]].expiresAt)
                 /\ tasks'[s].fetched =>
                       fetches'[tasks'[s].norm[1]] = fetches[tasks'[s].norm[1]] + 1
        /\ \A s \in DOMAIN tasks :
              (Returns(s) /\ tasks'[s].policy # None)
              => /\ Entry(policyCache', tasks[s].norm[1]) # None
                 /\ policyCache'[tasks[s].norm[1]].policy = tasks'[s].policy[1]
                 /\ policyCache'[tasks[s].norm[1]].expiresAt = now + CACHE_DURATION_MS
                 /\ Entry(policyCache, tasks[s].norm[1]) # None =>
                       /\ policyCache'[tasks[s].norm[1]].policy.ref
                             # policyCache[tasks[s].norm[1]].policy.ref
                       /\ policyCache[tasks[s].norm[1]].expiresAt <= tasks[s].startedAt =>
                             policyCache'[tasks[s].norm[1]].expiresAt
                                > policyCache[tasks[s].norm[1]].expiresAt
      ]_vars

\* C8, witness: a call that started exactly when the entry of an earlier
\* call expired has fetched again, and the cache holds its new Policy.
C8_Witness ==
    \E s1, s2 \in DOMAIN tasks :
        /\ s1 # s2
        /\ tasks[s1].pc = "done" /\ tasks[s2].pc = "done"
        /\ tasks[s1].norm # None /\ tasks[s1].norm = tasks[s2].norm
        /\ ~tasks[s1].cleared /\ ~tasks[s2].cleared
        /\ tasks[s1].fetched /\ tasks[s1].out.success
        /\ tasks[s2].startedAt = tasks[s1].out.policy[1].fetchedAt + CACHE_DURATION_MS
        /\ tasks[s2].fetched /\ tasks[s2].out.success
        /\ tasks[s2].out.policy # tasks[s1].out.policy
        /\ policyCache[tasks[s2].norm[1]].policy = tasks[s2].out.policy[1]
        /\ policyCache[tasks[s2].norm[1]].expiresAt
              = tasks[s2].out.policy[1].fetchedAt + CACHE_DURATION_MS

\* C9: when the fetch of a call returns a policy, the call overwrites the
\* entry of its name whatever the cache holds, so the entry that remains
\* is the one of the call that completed last.  (That two calls for one
\* name can both miss and both fetch is what the witness shows.)
C9_LastWriteWins ==
    [][\A s \in DOMAIN tasks :
          (Returns(s) /\ tasks'[s].policy # None)
          => Entry(policyCache', tasks[s].norm[1])
                = Some([policy |-> tasks'[s].policy[1],
                        expiresAt |-> now + CACHE_DURATION_MS])]_vars

\* C9, witness: two calls for one name both missed the cache and both
\* fetched; both completed, and the entry is the Policy of the one that
\* completed last (the later allocated object).
C9_Witness ==
    \E s1, s2 \in DOMAIN tasks :
        /\ SameWindow(s1, s2)
        /\ tasks[s1].fetched /\ tasks[s2].fetched
        /\ fetches[tasks[s1].norm[1]] = 2
        /\ tasks[s1].out.policy[1].ref < tasks[s2].out.policy[1].ref
        /\ policyCache[tasks[s1].norm[1]].policy = tasks[s2].out.policy[1]

\* The policy p holds what the text records of the name say, and nothing
\* of another name.
BuiltFromRecordsOf(name, p) ==
    \E r \in {OnChain(name)} :
        /\ p.ensName = name
        /\ r["maxSpendUSDC"] # None
        /\ Some(p.maxSpendUSDC) = ParseFloat(r["maxSpendUSDC"][1])
        /\ r["allowedActions"] # None
        /\ \E pieces \in {Split(r["allowedActions"][1], ",")} :
              \A i \in 1..Len(p.allowedActions) :
                  \E j \in 1..Len(pieces) : p.allowedActions[i] = ToLowerCase(Trim(pieces[j]))
        /\ p.policyVersion \in {<<"1", ".", "0">>} \cup
                                (IF r["policyVersion"] = None THEN {}
                                 ELSE {r["policyVersion"][1]})

\* C10: a step of a resolvePolicy call for one name leaves the cache
\* entries of all other names as they are (not created, replaced or
\* removed), and a returned policy is built from the records of the
\* call's own name.
C10_NamesDoNotInterfere ==
    /\ [][\A s \in DOMAIN tasks :
             ((Starts(s) \/ Returns(s)) /\ tasks'[s].norm # None)
             => \A other \in NormNames \ {tasks'[s].norm[1]} :
                    Entry(policyCache', other) = Entry(policyCache, other)]_vars
    /\ [](\A s \in DOMAIN tasks :
             (tasks[s].kind = "resolve" /\ tasks[s].out.policy # None)
             => BuiltFromRecordsOf(tasks[s].norm[1], tasks[s].out.policy[1]))

\* C10, witness: the calls for two different names have completed, the
\* second store came after the first, and the entry of the first name is
\* still the Policy its call returned.
C10_Witness ==
    \E s1, s2 \in DOMAIN tasks :
        /\ tasks[s1].pc = "done" /\ tasks[s2].pc = "done"
        /\ tasks[s1].fetched /\ tasks[s2].fetched
        /\ tasks[s1].out.success /\ tasks[s2].out.success
        /\ tasks[s1].norm # tasks[s2].norm
        /\ tasks[s1].out.policy[1].ref < tasks[s2].out.policy[1].ref
        /\ Entry(policyCache, tasks[s1].norm[1]) # None
        /\ policyCache[tasks[s1].norm[1]].policy = tasks[s1].out.policy[1]
        /\ Entry(policyCache, tasks[s2].norm[1]) # None
        /\ policyCache[tasks[s2].norm[1]].policy = tasks[s2].out.policy[1]
        /\ tasks[s1].out.policy[1].maxSpendUSDC # tasks[s2].out.policy[1].maxSpendUSDC

\* ---------------------------------------------------------------------
\* Claims about policy parsing and the fingerprint (checked under SpecPure)
\* ---------------------------------------------------------------------

\* What JavaScript's parseFloat makes of the drawn texts: no number for
\* "abc" and ".", a negative number for "-5", a number >= 0 for "100",
\* "1.5", "0", " 7" (leading blanks are skipped) and "12ab" (the parse
\* stops at the first character that cannot continue the number).
NotANumber == {<<"a", "b", "c">>, <<".">>}
NegativeNumber == {<<"-", "5">>}

\* No entry of a comma-separated text is left once the entries are
\* trimmed: the text holds nothing but commas and blanks.
OnlySeparators(s) == \A i \in 1..Len(s) : s[i] \in {",", " "}

\* The error code the stated precedence gives a records object, "" for
\* success.
ExpectedCode(records) ==
    LET m == records["maxSpendUSDC"]
        a == records["allowedActions"]
    IN  IF m = None \/ m[1] = <<>> THEN "MISSING_MAX_SPEND"
        ELSE IF m[1] \in NotANumber \cup NegativeNumber THEN "INVALID_MAX_SPEND"
        ELSE IF a = None \/ a[1] = <<>> THEN "MISSING_ALLOWED_ACTIONS"
        ELSE IF OnlySeparators(a[1]) THEN "EMPTY_ALLOWED_ACTIONS"
        ELSE ""

\* C11: parsePolicy fails with MISSING_MAX_SPEND when the maxSpend record
\* is absent or empty; otherwise with INVALID_MAX_SPEND when it is not a
\* number or negative; otherwise with MISSING_ALLOWED_ACTIONS when the
\* allowedActions record is absent or empty; otherwise with
\* EMPTY_ALLOWED_ACTIONS when no non-empty entry remains after splitting
\* and trimming; and succeeds otherwise.
C11_ParseErrorPrecedence ==
    Applied("parsePolicy") =>
        /\ call.out.code = ExpectedCode(call.records)
        /\ call.out.ok <=> ExpectedCode(call.records) = ""

\* C11 witness: both required records are unusable (maxSpend is "abc",
\* allowedActions is missing) and the maxSpend error is the one reported.
C11_Witness ==
    /\ Applied("parsePolicy")
    /\ call.records["maxSpendUSDC"] = Some(<<"a", "b", "c">>)
    /\ call.records["allowedActions"] = None
    /\ call.out.code = "INVALID_MAX_SPEND"

\* The registry contents with the records of the keys in failed removed.
WithoutRecords(onChain, failed) ==
    [key \in ENS_POLICY_KEYS |-> IF key \in failed THEN None ELSE onChain[key]]

\* C12: a rejected lookup of one attribute is treated exactly like the
\* absence of that attribute and never aborts the resolution: the records
\* and the outcome are those of a registry without the failed attributes;
\* with maxSpend and allowedActions fetched and valid, and the version
\* absent or its lookup rejected, the resolution succeeds with version
\* "1.0".
C12_RejectedLookupIsAbsence ==
    Applied("fetchAndParse") =>
        LET asAbsent == WithoutRecords(call.onChain, call.failed)
        IN  /\ \A key \in ENS_POLICY_KEYS :
                    call.records[key] = IF Missing(asAbsent[key]) THEN None ELSE asAbsent[key]
            /\ call.out.code = ExpectedCode(asAbsent)
            /\ call.out.ok <=> ExpectedCode(asAbsent) = ""
            /\ (/\ ExpectedCode(call.onChain) = ""
                /\ call.failed \subseteq {"policyVersion"}
                /\ call.failed # {} \/ call.onChain["policyVersion"] = None)
               => /\ call.out.ok
                  /\ call.out.policy[1].policyVersion = <<"1", ".", "0">>
                  /\ call.out.policy[1].maxSpendUSDC
                        = ParseFloat(call.onChain["maxSpendUSDC"][1])[1]

\* C12 witness: the registry holds version "2.0" and valid required
\* records, the version lookup is rejected, and the policy has version
\* "1.0".
C12_Witness ==
    /\ Applied("fetchAndParse")
    /\ call.failed = {"policyVersion"}
    /\ call.onChain["policyVersion"] = Some(<<"2", ".", "0">>)
    /\ call.out.ok
    /\ call.out.policy[1].policyVersion = <<"1", ".", "0">>

\* ---------------------------------------------------------------------
\* Claims about resolution failures (checked under SpecServer)
\* ---------------------------------------------------------------------

\* C13: when the registry is unreachable (the lookups of all attributes
\* are rejected), the resolution fails with a resolution-layer error that
\* is not a PolicyError, and executeAction reports ENS_RESOLUTION_FAILED.
C13_UnreachableIsResolutionFailure ==
    [][\A s \in DOMAIN tasks :
            (tasks[s].kind = "execute" /\ FetchReturns(s, ENS_POLICY_KEYS))
            => /\ tasks'[s].pc = "done"
               /\ ~tasks'[s].out.success
               /\ tasks'[s].out.code = "ENS_RESOLUTION_FAILED"]_vars

\* C14: the fingerprint is a function of (maxSpend, sorted allowedActions,
\* version) alone: resolving the same attribute texts twice, or with the
\* allowed actions written in another order, gives identical fingerprints
\* (and identical limits, action lists and versions); the fingerprint of
\* (100, [payment, transfer], "1.0") is the one the JavaScript engine
\* computes, 1018307703.
C14_FingerprintDeterminism ==
    Applied("computePolicyHash") =>
        /\ call.first.ok /\ call.second.ok
        /\ call.first.policy[1].policyHash = call.second.policy[1].policyHash
        /\ call.first.policy[1].allowedActions = call.second.policy[1].allowedActions
        /\ IsBigIntString(call.first.policy[1].policyHash)
        /\ (/\ call.first.policy[1].maxSpendUSDC = 100 * DecimalUnit
            /\ call.first.policy[1].allowedActions = <<Payment, Transfer>>
            /\ call.first.policy[1].policyVersion = <<"1", ".", "0">>)
           => call.first.policy[1].policyHash
                = <<"1", "0", "1", "8", "3", "0", "7", "7", "0", "3">>

\* C14 witness: the two resolutions wrote different actions in different
\* orders (transfer,payment and payment,transfer) and got one fingerprint.
C14_Witness ==
    /\ Applied("computePolicyHash")
    /\ call.list = <<Transfer, Payment>>
    /\ call.other = <<Payment, Transfer>>
    /\ call.first.policy[1].ref # call.second.policy[1].ref
    /\ call.first.policy[1].policyHash = call.second.policy[1].policyHash

\* C15: isAmountWithinLimit(policy, amount) holds exactly when
\* 0 <= amount <= policy.maxSpend; for the mock policy (limit 100) it
\* accepts 50 and 100 and refuses 150.
C15_AmountWithinLimit ==
    Applied("isAmountWithinLimit") =>
        /\ call.out <=> (0 <= call.amount /\ call.amount <= call.policy.maxSpendUSDC)
        /\ call.policy = CreateMockPolicy(NameA, 0, 1) =>
            /\ call.amount \in {50 * DecimalUnit, 100 * DecimalUnit} => call.out
            /\ call.amount = 150 * DecimalUnit => ~call.out

\* C15 witness: the amount equal to the limit is accepted, and so is the
\* amount 0 under the limit 0.
C15_Witness ==
    /\ Applied("isAmountWithinLimit")
    /\ call.amount = call.policy.maxSpendUSDC
    /\ call.policy.maxSpendUSDC \in {0, 100 * DecimalUnit}
    /\ call.out

\* ---------------------------------------------------------------------
\* Claims about the circuit (checked under SpecPure)
\* ---------------------------------------------------------------------

\* C16: PolicyCompliance(n) has a satisfying witness exactly when amount
\* and maxSpend both fit in n bits as unsigned integers and
\* amount <= maxSpend; in every satisfying witness isValid = 1 and
\* commitment = Poseidon(amount, policyHash).  For inputs that fit, the
\* integer form of the circuit used by generateProof agrees.
C16_CircuitSoundAndComplete ==
    Applied("PolicyCompliance") =>
        /\ call.witnesses # {}
            <=> /\ call.amount < 2 ^ call.n
                /\ call.maxSpend < 2 ^ call.n
                /\ call.amount <= call.maxSpend
        /\ \A w \in call.witnesses :
                /\ w.isValid = 1
                /\ w.commitment = Poseidon(call.amount, call.policyHash)
        /\ (call.amount < 2 ^ call.n /\ call.maxSpend < 2 ^ call.n)
            => (call.witnesses # {}
                    <=> PolicyCompliance(call.amount, call.maxSpend, call.policyHash).sat)

\* C16 witness: the largest n-bit amount at a limit equal to it satisfies
\* the constraints.
C16_Witness ==
    /\ Applied("PolicyCompliance")
    /\ call.amount = 2 ^ call.n - 1
    /\ call.maxSpend = call.amount
    /\ call.witnesses # {}

\* ---------------------------------------------------------------------
\* Claims about generateProof's paths (checked under SpecZK)
\* ---------------------------------------------------------------------

\* The scaled value of a number fits the circuit's unsigned range.
FitsCircuit(n) == Num2Bits(ScaledMicros(n), CircuitBits)

\* C17: for an amount or maxSpend whose 10^6-scaled value does not fit an
\* unsigned 64-bit integer (in particular a negative amount), generateProof
\* with the circuit artifacts present returns no proof, and in particular
\* no ZKProof with verified = true.
C17_OutOfRangeIsRejected ==
    (/\ Generated
     /\ gen.env.circuitFiles
     /\ ~FitsCircuit(gen.inputs.amount) \/ ~FitsCircuit(gen.inputs.maxSpend))
    => ~gen.out.ok

\* The limits drawn are whole numbers of USDC, so that maxSpend * 10^6 is
\* an integer known without rounding.
ExactMicros(n) == n \div (DecimalUnit \div MicroUnits)

RealPathRaises ==
    \/ gen.env.proverFault
    \/ ~PolicyCompliance(ScaledMicros(gen.inputs.amount), ScaledMicros(gen.inputs.maxSpend),
                         gen.inputs.policyHash).sat

\* C19: with the circuit artifacts present, if the real proving or
\* self-verification step raises for inputs with amount <= maxSpend (and a
\* fingerprint that is a decimal string), generateProof does not propagate
\* the exception: it returns the mock proof for the same inputs, with
\* verified = true.
C19_FallbackToMock ==
    (/\ Generated
     /\ gen.env.circuitFiles
     /\ RealPathRaises
     /\ gen.inputs.amount <= gen.inputs.maxSpend
     /\ IsBigIntString(gen.inputs.policyHash))
    => /\ gen.out.ok
       /\ gen.out.path = "mock"
       /\ gen.out.zk.verified = TRUE
       /\ gen.out.zk.proof = RandomHexProof
       /\ gen.out.zk.publicSignals[3] = ScaledMicros(gen.inputs.maxSpend)

\* C19 witness: the prover failed on compliant inputs and a mock proof was
\* returned.
C19_Witness ==
    /\ Generated
    /\ gen.env.circuitFiles
    /\ gen.env.proverFault
    /\ gen.inputs.amount = 5000000
    /\ gen.out.ok
    /\ gen.out.path = "mock"

\* C20: for every ProofInputs value (a fingerprint that is a decimal
\* string) with amount <= maxSpend, generateProof returns a ZKProof and
\* does not throw, with the circuit artifacts present or absent.
C20_OnlyExceedingAmountsFail ==
    (/\ Generated
     /\ IsBigIntString(gen.inputs.policyHash)
     /\ gen.inputs.amount <= gen.inputs.maxSpend)
    => gen.out.ok

\* C20 witness: without the artifacts, the amount equal to the limit gets
\* a proof.
C20_Witness ==
    /\ Generated
    /\ ~gen.env.circuitFiles
    /\ gen.inputs.amount = gen.inputs.maxSpend
    /\ gen.inputs.amount > 0
    /\ gen.out.ok

\* C21: for every input generateProof accepts, the commitment of the
\* returned proof equals computeCommitment(amount, fingerprint), the hash
\* of (floor(amount * 10^6), fingerprint) computed outside the circuit, on
\* the real path and on the mock path alike.
C21_CommitmentIsComputeCommitment ==
    (Generated /\ gen.out.ok) =>
        /\ ComputeCommitment(gen.inputs.amount, gen.inputs.policyHash).ok
        /\ gen.out.zk.commitment
            = ComputeCommitment(gen.inputs.amount, gen.inputs.policyHash).commitment
        /\ gen.out.zk.publicSignals[1]
            = ComputeCommitment(gen.inputs.amount, gen.inputs.policyHash).commitment

\* C21 witness: a mock proof returned after the prover failed, for the
\* amount 0.5, commits to (500000, fingerprint).
C21_Witness ==
    /\ Generated
    /\ gen.out.ok
    /\ gen.out.path = "mock"
    /\ gen.env.circuitFiles
    /\ gen.inputs.amount = 5000000
    /\ gen.out.zk.commitment = Poseidon(500000, gen.inputs.policyHash)

\* ---------------------------------------------------------------------
\* Claims about the routes and executeAction (checked under SpecServer)
\* ---------------------------------------------------------------------

\* C22: a request that carries ?mock=true is served from the mock policy
\* and performs no ENS resolution (no fetch, no read of the policy cache),
\* on GET /policy/:ensName, POST /proof and POST /execute alike.
C22_MockModeSkipsResolution ==
    \A s \in DOMAIN tasks :
        (tasks[s].mock /\ tasks[s].kind \in {"policy", "proof", "execute"})
        => /\ ~tasks[s].fetched
           /\ ~tasks[s].hit
           /\ tasks[s].pc # "fetching"
           /\ tasks[s].policy # None
                => tasks[s].policy[1].policyVersion = <<"1", ".", "0", "-", "m", "o", "c", "k">>

\* ---------------------------------------------------------------------
\* Claims about the cached policies (checked under SpecCache)
\* ---------------------------------------------------------------------

\* A policy with a limit that is not negative and a non-empty list of
\* allowed actions, each non-empty, trimmed and in lower case.
WellFormed(policy) ==
    /\ policy.maxSpendUSDC >= 0
    /\ Len(policy.allowedActions) > 0
    /\ \A i \in 1..Len(policy.allowedActions) :
        LET a == policy.allowedActions[i]
        IN  /\ Len(a) > 0
            /\ a[1] # " "
            /\ a[Len(a)] # " "
            /\ \A j \in 1..Len(a) : ~IsIn(Upper, a[j])

\* C23: every Policy returned by resolveENSPolicy or held in the cache is
\* well formed, and the entry stored under key k holds a policy whose
\* ensName is k, a normalized name.
C23_PoliciesAreWellFormed ==
    /\ \A k \in DOMAIN policyCache :
        /\ WellFormed(policyCache[k].policy)
        /\ policyCache[k].policy.ensName = k
        /\ Normalize(k) = Some(k)
    /\ \A s \in DOMAIN tasks :
        (tasks[s].pc = "done" /\ tasks[s].out.success)
        => /\ WellFormed(tasks[s].out.policy[1])
           /\ tasks[s].out.policy[1].ensName = tasks[s].norm[1]

\* C23 witness: resolving "A.eth", whose record reads " Transfer , payment",
\* stored under "a.eth" the policy named a.eth with the actions payment and
\* transfer.
C23_Witness ==
    /\ NameA \in DOMAIN policyCache
    /\ policyCache[NameA].policy.allowedActions = <<Payment, Transfer>>
    /\ \E s \in DOMAIN tasks :
        /\ tasks[s].ensName = NameAUpper
        /\ tasks[s].fetched
        /\ tasks[s].out.success
        /\ tasks[s].out.policy[1] = policyCache[NameA].policy

\* Slot s completes a call in this step, and the call failed.
FailsNow(s) ==
    /\ tasks'[s].pc = "done"
    /\ tasks[s].pc # "done" \/ tasks'[s].id # tasks[s].id
    /\ ~tasks'[s].out.success

\* Slot s completes a call in this step with a policy it fetched.
StoresNow(s) ==
    /\ tasks[s].pc = "fetching"
    /\ tasks'[s].pc = "done"
    /\ tasks'[s].out.success

\* C24: a resolveENSPolicy call that fails (a PolicyError, or normalize
\* rejecting the name) leaves the policy cache unchanged: no entry is
\* created, an expired entry of the name is neither removed nor replaced;
\* the cache changes only by a successful resolution or by
\* clearPolicyCache.
C24_FailureLeavesCacheUnchanged ==
    [][/\ (\E s \in DOMAIN tasks : FailsNow(s)) => policyCache' = policyCache
       /\ policyCache' # policyCache
            => \/ \E s \in DOMAIN tasks :
                    /\ StoresNow(s)
                    /\ \A k \in DOMAIN policyCache \ {tasks[s].norm[1]} :
                            k \in DOMAIN policyCache' /\ policyCache'[k] = policyCache[k]
               \/ policyCache' = EmptyMap]_vars

\* C24 witness: a call for a name found its entry expired, fetched, failed
\* with a PolicyError, and the expired entry is still in the cache.
C24_Witness ==
    \E s \in DOMAIN tasks :
        /\ tasks[s].pc = "done"
        /\ tasks[s].fetched
        /\ ~tasks[s].out.success
        /\ ~tasks[s].cleared
        /\ tasks[s].norm[1] \in DOMAIN policyCache
        /\ policyCache[tasks[s].norm[1]].expiresAt <= tasks[s].startedAt

\* The terminal events ('complete', 'error') among those an execution has
\* emitted, by their positions.
TerminalEvents(t) ==
    {i \in DOMAIN t.emitted : t.emitted[i].type \in {"complete", "error"}}

\* The history entries of an execution, by their positions.
InHistory(t) ==
    {i \in DOMAIN executionHistory : executionHistory[i].executionId = t.id}

\* C25: executeAction never throws.  A call that has completed has returned
\* an ExecuteResult (success, or success = false with an error message),
\* has added exactly one entry to the history and has emitted exactly one
\* terminal event: 'complete' when success is true, 'error' when it is
\* false.  A call still in flight has done neither.
C25_ExecuteActionAlwaysReturns ==
    \A s \in DOMAIN tasks :
        tasks[s].kind = "execute" =>
            IF tasks[s].pc = "done"
            THEN /\ ~tasks[s].out.threw
                 /\ tasks[s].out.success \/ tasks[s].out.error # ""
                 /\ Cardinality(InHistory(tasks[s])) = 1
                 /\ \A i \in InHistory(tasks[s]) :
                        executionHistory[i].success = tasks[s].out.success
                 /\ Cardinality(TerminalEvents(tasks[s])) = 1
                 /\ \A i \in TerminalEvents(tasks[s]) :
                        tasks[s].emitted[i].type =
                            IF tasks[s].out.success THEN "complete" ELSE "error"
            ELSE /\ InHistory(tasks[s]) = {}
                 /\ TerminalEvents(tasks[s]) = {}

\* C25 witness: a failed execution followed by a successful payment.
C25_Witness ==
    /\ Len(executionHistory) = 2
    /\ ~executionHistory[2].success
    /\ \E s \in DOMAIN tasks :
        /\ tasks[s].kind = "execute"
        /\ tasks[s].pc = "done"
        /\ tasks[s].out.success
        /\ tasks[s].executed = "payment"
        /\ tasks[s].id = executionHistory[1].executionId

\* The first k entries of a sequence (none when k is not positive).
FirstEntries(seq, k) == IF k <= 0 THEN <<>> ELSE SubSeq(seq, 1, k)

\* The smaller of two integers.
Smaller(a, b) == IF a <= b THEN a ELSE b

\* The history holds at most MAX_HISTORY entries, the newest first.
HistoryBoundedNewestFirst(history) ==
    /\ Len(history) <= MAX_HISTORY
    /\ \A i \in 1..(Len(history) - 1) : history[i].executionId > history[i + 1].executionId

\* A completed execution is put in front; the oldest entry leaves when the
\* history was full.
NewestInFront ==
    executionHistory' # executionHistory =>
        /\ executionHistory'[1].executionId = NextExecutionId
        /\ Tail(executionHistory') =
                FirstEntries(executionHistory, Smaller(Len(executionHistory), MAX_HISTORY - 1))

\* C26: the history holds at most 100 entries, newest first; the 101st
\* addition evicts the oldest; getExecutionHistory(limit) returns the first
\* min(limit, length) entries, for every limit.
C26_HistoryBoundedNewestFirst ==
    [][/\ HistoryBoundedNewestFirst(executionHistory')
       /\ NewestInFront
       /\ Applied("getExecutionHistory")' =>
            call'.out = FirstEntries(call'.history,
                                     Smaller(call'.limit, Len(call'.history)))]_vars

\* The same with getExecutionHistory read for limit >= 0 only.
HistoryBoundedForCounts ==
    [][/\ HistoryBoundedNewestFirst(executionHistory')
       /\ NewestInFront
       /\ Applied("getExecutionHistory")' /\ call'.limit >= 0 =>
            call'.out = FirstEntries(call'.history,
                                     Smaller(call'.limit, Len(call'.history)))]_vars

\* The 101st entry has been added and the history read with a limit.
HistoryEvictedAndRead ==
    /\ Len(executionHistory) = MAX_HISTORY
    /\ executionHistory[1].executionId = MAX_HISTORY + 2
    /\ Applied("getExecutionHistory")
    /\ call.limit = 10
    /\ Len(call.out) = 10

\* The status a node has before the i-th event of an execution: that of
\* its latest 'node-update' among the earlier events.
StatusBefore(t, nodeId, i) ==
    LET updates == {j \in 1..(i - 1) : /\ t.emitted[j].type = "node-update"
                                       /\ t.emitted[j].nodeId = nodeId}
    IN  IF updates = {} THEN "pending"
        ELSE t.emitted[CHOOSE j \in updates : \A k \in updates : k <= j].status

\* C27: within one execution the stages run in the order resolve, check,
\* execute, prove, result: a node is set to 'running' only when every
\* earlier stage's node has been set to 'success', no node is updated
\* after the 'result' node, and an execution that has terminated has
\* updated the 'result' node.
C27_StagesRunInOrder ==
    \A s \in DOMAIN tasks :
        tasks[s].kind = "execute" =>
            /\ \A i \in DOMAIN tasks[s].emitted :
                tasks[s].emitted[i].type = "node-update" =>
                    /\ tasks[s].emitted[i].status = "running" =>
                            \A k \in 1..(NodeIndex(tasks[s].emitted[i].nodeId) - 1) :
                                StatusBefore(tasks[s], FlowNodes[k], i) = "success"
                    /\ tasks[s].emitted[i].nodeId = "result" =>
                            \A j \in DOMAIN tasks[s].emitted :
                                j > i => tasks[s].emitted[j].type # "node-update"
            /\ tasks[s].pc = "done" =>
                    \E i \in DOMAIN tasks[s].emitted :
                        /\ tasks[s].emitted[i].type = "node-update"
                        /\ tasks[s].emitted[i].nodeId = "result"

\* C27 witness: a payment has gone through the five stages.
C27_Witness ==
    \E s \in DOMAIN tasks :
        /\ tasks[s].kind = "execute"
        /\ tasks[s].pc = "done"
        /\ tasks[s].executed = "payment"
        /\ \A k \in DOMAIN FlowNodes : tasks[s].flow[k] = "success"

\* C28: once an execution has emitted its terminal event, none of its
\* flow nodes is left 'running': every node that was started has reached
\* 'success' or 'error'.
C28_NoNodeLeftRunning ==
    \A s \in DOMAIN tasks :
        tasks[s].kind = "execute" /\ TerminalEvents(tasks[s]) # {} =>
            \A k \in DOMAIN FlowNodes :
                /\ tasks[s].flow[k] # "running"
                /\ StatusBefore(tasks[s], FlowNodes[k], Len(tasks[s].emitted) + 1) # "running"

\* C30: executeAction returns success = true only if the action step
\* succeeded: an execution whose sendPayment reported success = false is
\* not reported as successful.
C30_FailedPaymentIsNotSuccess ==
    \A s \in DOMAIN tasks :
        (/\ tasks[s].kind = "execute"
         /\ tasks[s].pc = "done"
         /\ tasks[s].payment # None
         /\ ~tasks[s].payment[1].success)
            => ~tasks[s].out.success

\* How many times emitEvent called the listener id.
TimesCalled(called, id) == Cardinality({i \in DOMAIN called : called[i] = id})

\* C29: emitEvent delivers the event exactly once to each listener that is
\* subscribed when it is called, and to no other, also when a listener
\* throws or unsubscribes during the delivery; no exception of a listener
\* leaves emitEvent.
C29_EveryListenerGetsEachEventOnce ==
    Applied("emitEvent") =>
        /\ ~call.threw
        /\ \A id \in 1..MaxListeners :
                TimesCalled(call.called, id) =
                    IF id \in Subscribed(call.subscribed) THEN 1 ELSE 0

\* The same, for the emissions during which no listener unsubscribes.
DeliveredOnceUnlessUnsubscribing ==
    (/\ Applied("emitEvent")
     /\ \A i \in DOMAIN call.subscribed : call.subscribed[i].does # "unsubscribe") =>
        /\ ~call.threw
        /\ \A id \in 1..MaxListeners :
                TimesCalled(call.called, id) =
                    IF id \in Subscribed(call.subscribed) THEN 1 ELSE 0

\* An event was delivered past a throwing listener to the listener
\* subscribed after it.
DeliveredPastThrowingListener ==
    /\ Applied("emitEvent")
    /\ Len(call.subscribed) = 2
    /\ call.subscribed[1].does = "throw"
    /\ call.subscribed[2].does = "write"
    /\ call.called = <<call.subscribed[1].id, call.subscribed[2].id>>

====
